---- MODULE Spec2Model ----
(***************************************************************************)
(* Note collection state engine of geeks-diary:                            *)
(*   src/src/browser/note/note-collection/note-collection.reducer.ts       *)
(*                                                                         *)
(* The store snapshot is the record `state`; `sorting` is the module-level *)
(* Sorting<NoteItem> object of the reducer file; `action` is the action    *)
(* that was dispatched last and `thrown` tells whether that dispatch ended *)
(* in an exception (the store then keeps the previous snapshot).           *)
(* `selectedBefore` is a history variable: the selectedNote of the         *)
(* snapshot the last action was applied to.                                *)
(*                                                                         *)
(* Strings that are compared with < and > (titles) are sequences of UTF-16 *)
(* code units.  Timestamps are epoch milliseconds; the local time zone is  *)
(* taken to be UTC.  Array indexes are 0-based as in the source, -1 is the *)
(* "not found" result of findIndex.                                        *)
(***************************************************************************)
EXTENDS Integers, Sequences, FiniteSets, TLC

VARIABLES state, sorting, action, thrown, selectedBefore

\* The note objects of the JavaScript heap.  A reference is the position of
\* its object in heap, 0 is null.  noteRefs are the references the notes
\* array of the snapshot holds and selectedRef is the reference its
\* selectedNote holds.  heldRef is the reference a reader of the store took
\* from the selectedNote of a snapshot and still holds, heldValue is what it
\* read from the object then.
VARIABLES heap, noteRefs, selectedRef, heldRef, heldValue

objectVars == <<heap, noteRefs, selectedRef, heldRef, heldValue>>

\* The note collection store.
storeVars == <<state, sorting, action, thrown, selectedBefore, objectVars>>

\* GithubAccountsDialogComponent: its fields, the type control of its form,
\* the account database it is given, the authorization requests and the
\* database calls that have not settled yet, the number of confirm dialogs
\* it has opened, and the handler that ran last.
VARIABLES loginProcessing, loginErrorCaught, isEmpty, accountsCount, accounts,
          formType, accountDB, authorizations, dbCalls, confirmDialogs,
          lifecycle, githubEvent

githubVars == <<loginProcessing, loginErrorCaught, isEmpty, accountsCount,
                accounts, formType, accountDB, authorizations, dbCalls,
                confirmDialogs, lifecycle, githubEvent>>

\* CreateNewNoteDialogComponent: its processing flag, whether its dialogRef
\* has been closed, the errors set on the title and label controls, the
\* title and label in the form, the alert dialogs it has opened, the
\* createNewNote() calls that have not ended yet, and the handler that ran
\* last.
VARIABLES createNewNoteProcessing, dialogClosed, titleErrors, labelErrors,
          formTitle, formLabel, alertDialogs, createCalls, createEvent

noteDialogVars == <<createNewNoteProcessing, dialogClosed, titleErrors,
                    labelErrors, formTitle, formLabel, alertDialogs,
                    createCalls, createEvent>>

\* VcsItemListManager: its item references, selected ids and key manager,
\* whether its selection change stream has completed, the
\* initWithFileChanges() calls that await their items, the number of such
\* calls made so far, and the method that ran last.
VARIABLES itemRefs, selectedItems, keyManager, streamCompleted, initCalls,
          initCount, managerEvent

managerVars == <<itemRefs, selectedItems, keyManager, streamCompleted,
                 initCalls, initCount, managerEvent>>

vars == <<storeVars, githubVars, noteDialogVars, managerVars>>

\* JavaScript null / undefined.
null == [tag |-> "null"]
undefined == [tag |-> "undefined"]

(***************************************************************************)
(* Bounds of the model.                                                    *)
(***************************************************************************)
\* ADD_NOTE is dispatched only while notes holds fewer entries than this.
MaxNotes == 2

(***************************************************************************)
(* Date: the part of the JavaScript Date object the reducer uses.          *)
(***************************************************************************)
MsPerDay == 86400000

\* Days since 1970-01-01 of the civil date y-m-d (m in 1..12) of the
\* proleptic Gregorian calendar.  The year is counted from March, in eras of
\* 400 years.
YearFromMarch(y, m) == IF m <= 2 THEN y - 1 ELSE y
MonthFromMarch(m) == IF m > 2 THEN m - 3 ELSE m + 9
DayOfYear(mp, d) == (153 * mp + 2) \div 5 + d - 1
DayOfEra(yoe, doy) == yoe * 365 + yoe \div 4 - yoe \div 100 + doy
DaysFromEra(yy, doy) ==
    (yy \div 400) * 146097 + DayOfEra(yy - (yy \div 400) * 400, doy) - 719468

CivilDays(y, m, d) ==
    DaysFromEra(YearFromMarch(y, m), DayOfYear(MonthFromMarch(m), d))

\* The Date constructor reads a year of 0..99 as 1900 + year, and carries a
\* month outside 1..12 into the year.
FullYear(y) == IF y >= 0 /\ y <= 99 THEN 1900 + y ELSE y
CarriedYear(y, m) == y + ((m - 1) \div 12)
CarriedMonth(m) == ((m - 1) % 12) + 1

\* Day number of new Date(y, m - 1, d).
DaysFromCivil(y, m, d) ==
    CivilDays(CarriedYear(FullYear(y), m), CarriedMonth(m), d)

\* Civil date [year, month (0..11), date] of a day number.
EraOf(zz) == zz \div 146097
DoeOf(zz) == zz - (zz \div 146097) * 146097
YoeOf(doe) ==
    (doe - doe \div 1460 + doe \div 36524 - doe \div 146096) \div 365
DoyOf(doe, yoe) == doe - (365 * yoe + yoe \div 4 - yoe \div 100)
MpOf(doy) == (5 * doy + 2) \div 153
DateOf(doy, mp) == doy - (153 * mp + 2) \div 5 + 1
MonthOf(mp) == IF mp < 10 THEN mp + 3 ELSE mp - 9

CivilFromMonth(era, yoe, m, d) ==
    [year  |-> yoe + era * 400 + (IF m <= 2 THEN 1 ELSE 0),
     month |-> m - 1,
     date  |-> d]
CivilFromMp(era, yoe, doy, mp) ==
    CivilFromMonth(era, yoe, MonthOf(mp), DateOf(doy, mp))
CivilFromYoe(era, doe, yoe) ==
    CivilFromMp(era, yoe, DoyOf(doe, yoe), MpOf(DoyOf(doe, yoe)))
CivilFromDoe(era, doe) == CivilFromYoe(era, doe, YoeOf(doe))

CivilFromDays(z) == CivilFromDoe(EraOf(z + 719468), DoeOf(z + 719468))

\* new Date(ms).getFullYear() / getMonth() / getDate()
getFullYear(ms) == CivilFromDays(ms \div MsPerDay).year
getMonth(ms)    == CivilFromDays(ms \div MsPerDay).month
getDate(ms)     == CivilFromDays(ms \div MsPerDay).date

\* new Date(year, month, date): local midnight of that day, as epoch ms.
\* The integers of the model checker are 32 bits wide: the product is
\* computed for the days -24..24 only, that is 1969-12-08 to 1970-01-25.
NewDate(year, month, date) == DaysFromCivil(year, month + 1, date) * MsPerDay

\* datetime.isAtSameMonth / datetime.isSameDay of libs/datetime.
isAtSameMonth(d1, d2) ==
    /\ getFullYear(d1) = getFullYear(d2)
    /\ getMonth(d1) = getMonth(d2)

isSameDay(d1, d2) ==
    /\ getFullYear(d1) = getFullYear(d2)
    /\ getMonth(d1) = getMonth(d2)
    /\ getDate(d1) = getDate(d2)

(***************************************************************************)
(* Comparison of JavaScript values with < and >: numbers by value, strings *)
(* lexicographically by code unit.                                         *)
(***************************************************************************)
RECURSIVE StrLess(_, _)
StrLess(s, t) ==
    IF t = <<>> THEN FALSE
    ELSE IF s = <<>> THEN TRUE
    ELSE IF Head(s) < Head(t) THEN TRUE
    ELSE IF Head(s) > Head(t) THEN FALSE
    ELSE StrLess(Tail(s), Tail(t))

(***************************************************************************)
(* Sorting<T> of core/sorting: an index-property getter, a direction and a *)
(* sort of the array it is given.  The getter is named by the property it  *)
(* reads.                                                                  *)
(***************************************************************************)
setIndexPropGetter(srt, prop) == [srt EXCEPT !.indexPropGetter = prop]

setDirection(srt, direction) == [srt EXCEPT !.direction = direction]

\* The comparator of Sorting.sort: -1, 0 or 1 by the index property, with the
\* sign flipped for the descending direction.
SortCompare(srt, a, b) ==
    LET byTitle == srt.indexPropGetter = "title"
        valueA  == IF byTitle THEN a.title ELSE a.createdDatetime
        valueB  == IF byTitle THEN b.title ELSE b.createdDatetime
        greater == IF byTitle THEN StrLess(valueB, valueA) ELSE valueA > valueB
        less    == IF byTitle THEN StrLess(valueA, valueB) ELSE valueA < valueB
        result  == IF greater THEN 1 ELSE IF less THEN -1 ELSE 0
    IN  result * (IF srt.direction = "ASC" THEN 1 ELSE -1)

\* Insert x into the sorted sequence s behind every element that does not
\* compare greater than it (Array.prototype.sort is stable).
RECURSIVE SortInsert(_, _, _)
SortInsert(srt, s, x) ==
    IF s = <<>> THEN <<x>>
    ELSE IF SortCompare(srt, Head(s), x) > 0 THEN <<x>> \o s
    ELSE <<Head(s)>> \o SortInsert(srt, Tail(s), x)

RECURSIVE SortFrom(_, _, _)
SortFrom(srt, done, rest) ==
    IF rest = <<>> THEN done
    ELSE SortFrom(srt, SortInsert(srt, done, Head(rest)), Tail(rest))

\* Sorting.sort(items)
sort(srt, items) == SortFrom(srt, <<>>, items)

(***************************************************************************)
(* Helpers of the reducer.                                                 *)
(***************************************************************************)
\* array[index] of JavaScript: undefined outside 0..length-1.
At(arr, index) ==
    IF index >= 0 /\ index < Len(arr) THEN arr[index + 1] ELSE undefined

\* { ...a, ...b }: the fields of b written over a copy of a, one by one.
RECURSIVE SpreadFields(_, _, _)
SpreadFields(a, b, fields) ==
    IF fields = {} THEN a
    ELSE LET f == CHOOSE g \in fields : TRUE
         IN  SpreadFields([a EXCEPT ![f] = b[f]], b, fields \ {f})

Spread(a, b) ==
    IF DOMAIN b \subseteq DOMAIN a
    THEN SpreadFields(a, b, DOMAIN b)
    ELSE [f \in DOMAIN a \cup DOMAIN b |-> IF f \in DOMAIN b THEN b[f] ELSE a[f]]

isIndexOfNoteIsSelectedNote(st, index) ==
    IF At(st.notes, index) = undefined \/ st.selectedNote = null
    THEN FALSE
    ELSE At(st.notes, index).id = st.selectedNote.id

\* Mutant: index 0 instead of -1 when no entry has the id.
getIndexOfNote_ZeroWhenMissing(st, targetNote) ==
    IF \E i \in 1..Len(st.notes) : st.notes[i].id = targetNote.id
    THEN (CHOOSE i \in 1..Len(st.notes) :
            /\ st.notes[i].id = targetNote.id
            /\ \A j \in 1..(i - 1) : st.notes[j].id # targetNote.id) - 1
    ELSE 0

\* state.notes.findIndex(note => note.id === targetNote.id)
getIndexOfNote(st, targetNote) ==
    IF \E i \in 1..Len(st.notes) : st.notes[i].id = targetNote.id
    THEN (CHOOSE i \in 1..Len(st.notes) :
            /\ st.notes[i].id = targetNote.id
            /\ \A j \in 1..(i - 1) : st.notes[j].id # targetNote.id) - 1
    ELSE -1

\* The result of a reducer step: the snapshot returned, the Sorting object as
\* the step leaves it, and whether the step threw instead of returning.
Returned(st, srt) == [state |-> st, sorting |-> srt, thrown |-> FALSE]
Thrown(st, srt)   == [state |-> st, sorting |-> srt, thrown |-> TRUE]

\* Mutant: a filter whose selector is unset lets every note pass.
withFilteredAndSortedNotes_SilentWithoutSelector(st, srt) ==
    LET hasMonth == st.filterBy = "BY_MONTH" /\ st.selectedMonth # null
        hasDate  == st.filterBy = "BY_DATE" /\ st.selectedDate # null
        filterSource ==
            CASE hasMonth ->
                    NewDate(st.selectedMonth.year, st.selectedMonth.month, 1)
              [] hasDate ->
                    NewDate(st.selectedDate.year, st.selectedDate.month,
                            st.selectedDate.date)
              [] OTHER -> 0
        InMonth(note) == isAtSameMonth(filterSource, note.createdDatetime)
        OnDay(note)   == isSameDay(filterSource, note.createdDatetime)
        notes ==
            CASE hasMonth -> SelectSeq(st.notes, InMonth)
              [] hasDate  -> SelectSeq(st.notes, OnDay)
              [] OTHER    -> st.notes
        srt1 ==
            CASE st.sortBy = "CREATED" -> setIndexPropGetter(srt, "createdDatetime")
              [] st.sortBy = "TITLE"   -> setIndexPropGetter(srt, "title")
              [] OTHER                 -> srt
        srt2 == setDirection(srt1, st.sortDirection)
    IN  Returned([st EXCEPT !.filteredAndSortedNotes = sort(srt2, notes)], srt2)

\* Mutant: the month filter compares days, as the date filter does.
withFilteredAndSortedNotes_MonthByDay(st, srt) ==
    IF \/ st.filterBy = "BY_MONTH" /\ st.selectedMonth = null
       \/ st.filterBy = "BY_DATE" /\ st.selectedDate = null
    THEN Thrown(st, srt)
    ELSE
    LET filterSource ==
            CASE st.filterBy = "BY_MONTH" ->
                    NewDate(st.selectedMonth.year, st.selectedMonth.month, 1)
              [] st.filterBy = "BY_DATE" ->
                    NewDate(st.selectedDate.year, st.selectedDate.month,
                            st.selectedDate.date)
              [] OTHER -> 0
        OnDay(note) == isSameDay(filterSource, note.createdDatetime)
        notes ==
            CASE st.filterBy = "BY_MONTH" -> SelectSeq(st.notes, OnDay)
              [] st.filterBy = "BY_DATE"  -> SelectSeq(st.notes, OnDay)
              [] OTHER                    -> st.notes
        srt1 ==
            CASE st.sortBy = "CREATED" -> setIndexPropGetter(srt, "createdDatetime")
              [] st.sortBy = "TITLE"   -> setIndexPropGetter(srt, "title")
              [] OTHER                 -> srt
        srt2 == setDirection(srt1, st.sortDirection)
    IN  Returned([st EXCEPT !.filteredAndSortedNotes = sort(srt2, notes)], srt2)

\* Mutant: the date filter compares months, as the month filter does.
withFilteredAndSortedNotes_DateByMonth(st, srt) ==
    IF \/ st.filterBy = "BY_MONTH" /\ st.selectedMonth = null
       \/ st.filterBy = "BY_DATE" /\ st.selectedDate = null
    THEN Thrown(st, srt)
    ELSE
    LET filterSource ==
            CASE st.filterBy = "BY_MONTH" ->
                    NewDate(st.selectedMonth.year, st.selectedMonth.month, 1)
              [] st.filterBy = "BY_DATE" ->
                    NewDate(st.selectedDate.year, st.selectedDate.month,
                            st.selectedDate.date)
              [] OTHER -> 0
        InMonth(note) == isAtSameMonth(filterSource, note.createdDatetime)
        notes ==
            CASE st.filterBy = "BY_MONTH" -> SelectSeq(st.notes, InMonth)
              [] st.filterBy = "BY_DATE"  -> SelectSeq(st.notes, InMonth)
              [] OTHER                    -> st.notes
        srt1 ==
            CASE st.sortBy = "CREATED" -> setIndexPropGetter(srt, "createdDatetime")
              [] st.sortBy = "TITLE"   -> setIndexPropGetter(srt, "title")
              [] OTHER                 -> srt
        srt2 == setDirection(srt1, st.sortDirection)
    IN  Returned([st EXCEPT !.filteredAndSortedNotes = sort(srt2, notes)], srt2)

\* Mutant: the notes are sorted without the direction being handed to the
\* Sorting object.
withFilteredAndSortedNotes_DirectionNotSet(st, srt) ==
    IF \/ st.filterBy = "BY_MONTH" /\ st.selectedMonth = null
       \/ st.filterBy = "BY_DATE" /\ st.selectedDate = null
    THEN Thrown(st, srt)
    ELSE
    LET filterSource ==
            CASE st.filterBy = "BY_MONTH" ->
                    NewDate(st.selectedMonth.year, st.selectedMonth.month, 1)
              [] st.filterBy = "BY_DATE" ->
                    NewDate(st.selectedDate.year, st.selectedDate.month,
                            st.selectedDate.date)
              [] OTHER -> 0
        InMonth(note) == isAtSameMonth(filterSource, note.createdDatetime)
        OnDay(note)   == isSameDay(filterSource, note.createdDatetime)
        notes ==
            CASE st.filterBy = "BY_MONTH" -> SelectSeq(st.notes, InMonth)
              [] st.filterBy = "BY_DATE"  -> SelectSeq(st.notes, OnDay)
              [] OTHER                    -> st.notes
        srt1 ==
            CASE st.sortBy = "CREATED" -> setIndexPropGetter(srt, "createdDatetime")
              [] st.sortBy = "TITLE"   -> setIndexPropGetter(srt, "title")
              [] OTHER                 -> srt
    IN  Returned([st EXCEPT !.filteredAndSortedNotes = sort(srt1, notes)], srt1)

\* Mutant: the getter is set for the title only; sorting by creation time
\* uses whatever getter the Sorting object holds.
withFilteredAndSortedNotes_GetterOnlyForTitle(st, srt) ==
    IF \/ st.filterBy = "BY_MONTH" /\ st.selectedMonth = null
       \/ st.filterBy = "BY_DATE" /\ st.selectedDate = null
    THEN Thrown(st, srt)
    ELSE
    LET filterSource ==
            CASE st.filterBy = "BY_MONTH" ->
                    NewDate(st.selectedMonth.year, st.selectedMonth.month, 1)
              [] st.filterBy = "BY_DATE" ->
                    NewDate(st.selectedDate.year, st.selectedDate.month,
                            st.selectedDate.date)
              [] OTHER -> 0
        InMonth(note) == isAtSameMonth(filterSource, note.createdDatetime)
        OnDay(note)   == isSameDay(filterSource, note.createdDatetime)
        notes ==
            CASE st.filterBy = "BY_MONTH" -> SelectSeq(st.notes, InMonth)
              [] st.filterBy = "BY_DATE"  -> SelectSeq(st.notes, OnDay)
              [] OTHER                    -> st.notes
        srt1 ==
            CASE st.sortBy = "TITLE" -> setIndexPropGetter(srt, "title")
              [] OTHER               -> srt
        srt2 == setDirection(srt1, st.sortDirection)
    IN  Returned([st EXCEPT !.filteredAndSortedNotes = sort(srt2, notes)], srt2)

\* Mutant: without a filter the notes array itself is sorted, not a copy.
withFilteredAndSortedNotes_SortsNotesInPlace(st, srt) ==
    IF \/ st.filterBy = "BY_MONTH" /\ st.selectedMonth = null
       \/ st.filterBy = "BY_DATE" /\ st.selectedDate = null
    THEN Thrown(st, srt)
    ELSE
    LET filterSource ==
            CASE st.filterBy = "BY_MONTH" ->
                    NewDate(st.selectedMonth.year, st.selectedMonth.month, 1)
              [] st.filterBy = "BY_DATE" ->
                    NewDate(st.selectedDate.year, st.selectedDate.month,
                            st.selectedDate.date)
              [] OTHER -> 0
        InMonth(note) == isAtSameMonth(filterSource, note.createdDatetime)
        OnDay(note)   == isSameDay(filterSource, note.createdDatetime)
        notes ==
            CASE st.filterBy = "BY_MONTH" -> SelectSeq(st.notes, InMonth)
              [] st.filterBy = "BY_DATE"  -> SelectSeq(st.notes, OnDay)
              [] OTHER                    -> st.notes
        srt1 ==
            CASE st.sortBy = "CREATED" -> setIndexPropGetter(srt, "createdDatetime")
              [] st.sortBy = "TITLE"   -> setIndexPropGetter(srt, "title")
              [] OTHER                 -> srt
        srt2 == setDirection(srt1, st.sortDirection)
    IN  IF st.filterBy \in {"BY_MONTH", "BY_DATE"}
        THEN Returned([st EXCEPT !.filteredAndSortedNotes = sort(srt2, notes)], srt2)
        ELSE Returned([st EXCEPT !.notes = sort(srt2, notes),
                                 !.filteredAndSortedNotes = sort(srt2, notes)], srt2)

\* Mutant: a filter is applied to the previous derived view, not to notes.
withFilteredAndSortedNotes_FiltersPreviousView(st, srt) ==
    IF \/ st.filterBy = "BY_MONTH" /\ st.selectedMonth = null
       \/ st.filterBy = "BY_DATE" /\ st.selectedDate = null
    THEN Thrown(st, srt)
    ELSE
    LET filterSource ==
            CASE st.filterBy = "BY_MONTH" ->
                    NewDate(st.selectedMonth.year, st.selectedMonth.month, 1)
              [] st.filterBy = "BY_DATE" ->
                    NewDate(st.selectedDate.year, st.selectedDate.month,
                            st.selectedDate.date)
              [] OTHER -> 0
        InMonth(note) == isAtSameMonth(filterSource, note.createdDatetime)
        OnDay(note)   == isSameDay(filterSource, note.createdDatetime)
        notes ==
            CASE st.filterBy = "BY_MONTH" ->
                    SelectSeq(st.filteredAndSortedNotes, InMonth)
              [] st.filterBy = "BY_DATE"  ->
                    SelectSeq(st.filteredAndSortedNotes, OnDay)
              [] OTHER                    -> st.notes
        srt1 ==
            CASE st.sortBy = "CREATED" -> setIndexPropGetter(srt, "createdDatetime")
              [] st.sortBy = "TITLE"   -> setIndexPropGetter(srt, "title")
              [] OTHER                 -> srt
        srt2 == setDirection(srt1, st.sortDirection)
    IN  Returned([st EXCEPT !.filteredAndSortedNotes = sort(srt2, notes)], srt2)

\* Mutant: the date filter also requires the month of a selected month.
withFilteredAndSortedNotes_DateWithinMonth(st, srt) ==
    IF \/ st.filterBy = "BY_MONTH" /\ st.selectedMonth = null
       \/ st.filterBy = "BY_DATE" /\ st.selectedDate = null
    THEN Thrown(st, srt)
    ELSE
    LET filterSource ==
            CASE st.filterBy = "BY_MONTH" ->
                    NewDate(st.selectedMonth.year, st.selectedMonth.month, 1)
              [] st.filterBy = "BY_DATE" ->
                    NewDate(st.selectedDate.year, st.selectedDate.month,
                            st.selectedDate.date)
              [] OTHER -> 0
        InMonth(note) == isAtSameMonth(filterSource, note.createdDatetime)
        OnDay(note)   == isSameDay(filterSource, note.createdDatetime)
        OnDayInMonth(note) ==
            /\ OnDay(note)
            /\ \/ st.selectedMonth = null
               \/ /\ getFullYear(note.createdDatetime) = st.selectedMonth.year
                  /\ getMonth(note.createdDatetime) = st.selectedMonth.month
        notes ==
            CASE st.filterBy = "BY_MONTH" -> SelectSeq(st.notes, InMonth)
              [] st.filterBy = "BY_DATE"  -> SelectSeq(st.notes, OnDayInMonth)
              [] OTHER                    -> st.notes
        srt1 ==
            CASE st.sortBy = "CREATED" -> setIndexPropGetter(srt, "createdDatetime")
              [] st.sortBy = "TITLE"   -> setIndexPropGetter(srt, "title")
              [] OTHER                 -> srt
        srt2 == setDirection(srt1, st.sortDirection)
    IN  Returned([st EXCEPT !.filteredAndSortedNotes = sort(srt2, notes)], srt2)

withFilteredAndSortedNotes(st, srt) ==
    IF \/ st.filterBy = "BY_MONTH" /\ st.selectedMonth = null
       \/ st.filterBy = "BY_DATE" /\ st.selectedDate = null
    THEN \* state.selectedMonth.year of null: TypeError
         Thrown(st, srt)
    ELSE
    LET filterSource ==
            CASE st.filterBy = "BY_MONTH" ->
                    NewDate(st.selectedMonth.year, st.selectedMonth.month, 1)
              [] st.filterBy = "BY_DATE" ->
                    NewDate(st.selectedDate.year, st.selectedDate.month,
                            st.selectedDate.date)
              [] OTHER -> 0
        InMonth(note) == isAtSameMonth(filterSource, note.createdDatetime)
        OnDay(note)   == isSameDay(filterSource, note.createdDatetime)
        notes ==
            CASE st.filterBy = "BY_MONTH" -> SelectSeq(st.notes, InMonth)
              [] st.filterBy = "BY_DATE"  -> SelectSeq(st.notes, OnDay)
              [] OTHER                    -> st.notes
        srt1 ==
            CASE st.sortBy = "CREATED" -> setIndexPropGetter(srt, "createdDatetime")
              [] st.sortBy = "TITLE"   -> setIndexPropGetter(srt, "title")
              [] OTHER                 -> srt
        srt2 == setDirection(srt1, st.sortDirection)
    IN  Returned([st EXCEPT !.filteredAndSortedNotes = sort(srt2, notes)], srt2)

\* Mutant: the patch is not applied to the selected note.
withNoteUpdate_NoMirror(st, index, patch) ==
    IF At(st.notes, index) = undefined THEN st
    ELSE [st EXCEPT !.notes =
              [st.notes EXCEPT ![index + 1] = Spread(st.notes[index + 1], patch)]]

withNoteUpdate(st, index, patch) ==
    LET target == At(st.notes, index)
    IN  IF target = undefined THEN st
        ELSE
        LET notes == [st.notes EXCEPT ![index + 1] = Spread(st.notes[index + 1], patch)]
        IN  IF isIndexOfNoteIsSelectedNote(st, index)
            THEN [st EXCEPT !.selectedNote = Spread(st.selectedNote, patch),
                            !.notes = notes]
            ELSE [st EXCEPT !.notes = notes]

\* notes.splice(deleteIndex, 1) on a copy of the notes
Splice1(arr, index) ==
    SubSeq(arr, 1, index) \o SubSeq(arr, index + 2, Len(arr))

\* Mutant: the selection is kept when its entry is deleted.
withNoteDelete_KeepsSelection(st, deleteIndex) ==
    IF At(st.notes, deleteIndex) = undefined THEN st
    ELSE [st EXCEPT !.notes = Splice1(st.notes, deleteIndex)]

withNoteDelete(st, deleteIndex) ==
    IF At(st.notes, deleteIndex) = undefined THEN st
    ELSE
    LET notes == Splice1(st.notes, deleteIndex)
    IN  IF isIndexOfNoteIsSelectedNote(st, deleteIndex)
        THEN [st EXCEPT !.selectedNote = null, !.notes = notes]
        ELSE [st EXCEPT !.notes = notes]

(***************************************************************************)
(* The reducer on objects.  The snapshot is a tree of values above; here   *)
(* the same code is read for the objects it makes and the references it    *)
(* stores.  o holds the heap and the references of the snapshot.  A spread *)
(* { ...x } and an array copy make a new object; an assignment to a field  *)
(* of an object that exists would replace the object in its place of the   *)
(* heap.                                                                   *)
(***************************************************************************)
Objects(h, refs, ref) == [heap |-> h, noteRefs |-> refs, selectedRef |-> ref]

\* The notes and the selectedNote a snapshot with these references shows.
NotesOf(o) == [i \in 1..Len(o.noteRefs) |-> o.heap[o.noteRefs[i]]]
SelectedNoteOf(o) ==
    IF o.selectedRef = 0 THEN null ELSE o.heap[o.selectedRef]

\* Mutant: the patch is assigned to the selectedNote object of the snapshot
\* given, instead of to a copy of it.
withNoteUpdateObjects_InPlace(o, st, index, patch) ==
    IF At(st.notes, index) = undefined THEN o
    ELSE
    LET entry == Len(o.heap) + 1
        heapWithEntry ==
            Append(o.heap, Spread(o.heap[o.noteRefs[index + 1]], patch))
        refs == [o.noteRefs EXCEPT ![index + 1] = entry]
    IN  IF isIndexOfNoteIsSelectedNote(st, index)
        THEN Objects([heapWithEntry EXCEPT ![o.selectedRef] =
                          Spread(o.heap[o.selectedRef], patch)],
                     refs, o.selectedRef)
        ELSE Objects(heapWithEntry, refs, o.selectedRef)

\* withNoteUpdate: notes[index] = { ...notes[index], ...patch } on a copy of
\* the array puts a new object in the place of the entry, and
\* selectedNote: { ...state.selectedNote, ...patch } is a new object too.
\* The objects that were there are not written.
withNoteUpdateObjects(o, st, index, patch) ==
    IF At(st.notes, index) = undefined THEN o
    ELSE
    LET entry == Len(o.heap) + 1
        heapWithEntry ==
            Append(o.heap, Spread(o.heap[o.noteRefs[index + 1]], patch))
        refs == [o.noteRefs EXCEPT ![index + 1] = entry]
    IN  IF isIndexOfNoteIsSelectedNote(st, index)
        THEN Objects(Append(heapWithEntry,
                            Spread(o.heap[o.selectedRef], patch)),
                     refs, entry + 1)
        ELSE Objects(heapWithEntry, refs, o.selectedRef)

\* withNoteDelete: the reference is spliced out of a copy of the array, and
\* selectedNote is null when the entry was the selected one.
withNoteDeleteObjects(o, st, deleteIndex) ==
    IF At(st.notes, deleteIndex) = undefined THEN o
    ELSE IF isIndexOfNoteIsSelectedNote(st, deleteIndex)
         THEN Objects(o.heap, Splice1(o.noteRefs, deleteIndex), 0)
         ELSE Objects(o.heap, Splice1(o.noteRefs, deleteIndex),
                      o.selectedRef)

\* LOAD_COLLECTION_COMPLETE: notes: [...action.payload.notes] is a new array
\* of the objects of the payload, which the dispatcher made.
reduceLoadCollectionCompleteObjects(o, a) ==
    Objects(o.heap \o a.payload.notes,
            [i \in 1..Len(a.payload.notes) |-> Len(o.heap) + i],
            o.selectedRef)

\* SELECT_NOTE: selectedNote: { ...action.payload.note } is a new object.
reduceSelectNoteObjects(o, a) ==
    Objects(Append(o.heap, a.payload.note), o.noteRefs, Len(o.heap) + 1)

\* DESELECT_NOTE: selectedNote: null.
reduceDeselectNoteObjects(o) == Objects(o.heap, o.noteRefs, 0)

\* ADD_NOTE: notes.push(action.payload.note) on a copy of the array stores
\* the object of the payload, which the dispatcher made.
reduceAddNoteObjects(o, a) ==
    Objects(Append(o.heap, a.payload.note),
            Append(o.noteRefs, Len(o.heap) + 1), o.selectedRef)

\* The note objects and references after the reducer has returned for the
\* action a on the snapshot st, whose objects are o.  The other cases of
\* the switch make no note object and copy the references as they are.
noteCollectionReducerObjects(o, st, a) ==
    CASE a.type = "LOAD_COLLECTION_COMPLETE" ->
             reduceLoadCollectionCompleteObjects(o, a)
      [] a.type = "SELECT_NOTE"   -> reduceSelectNoteObjects(o, a)
      [] a.type = "DESELECT_NOTE" -> reduceDeselectNoteObjects(o)
      [] a.type = "ADD_NOTE"      -> reduceAddNoteObjects(o, a)
      [] a.type = "CHANGE_NOTE_TITLE" ->
             withNoteUpdateObjects(o, st, getIndexOfNote(st, a.payload.note),
                 [title           |-> a.payload.title,
                  contentFilePath |-> a.payload.contentFilePath,
                  contentFileName |-> a.payload.contentFileName])
      [] a.type = "DELETE_NOTE" ->
             withNoteDeleteObjects(o, st, getIndexOfNote(st, a.payload.note))
      [] a.type = "CHANGE_NOTE_STACKS" ->
             withNoteUpdateObjects(o, st, getIndexOfNote(st, a.payload.note),
                 [stackIds |-> a.payload.stacks])
      [] OTHER -> o

\* The cases of the switch of noteCollectionReducer, one operator each.
\* Mutant: the loading flag is toggled.
reduceLoadCollection_Toggles(st, srt, a) ==
    Returned([st EXCEPT !.loading = ~st.loading], srt)

\* Mutant: the start of a load also marks the collection as not loaded.
reduceLoadCollection_ResetsLoaded(st, srt, a) ==
    Returned([st EXCEPT !.loading = TRUE, !.loaded = FALSE], srt)

reduceLoadCollection(st, srt, a) ==
    Returned([st EXCEPT !.loading = TRUE], srt)

\* Mutant: a reload starts from the unfiltered view.
reduceLoadCollectionComplete_ResetsFilter(st, srt, a) ==
    withFilteredAndSortedNotes(
        [st EXCEPT !.loading = FALSE, !.loaded = TRUE,
                   !.notes = a.payload.notes,
                   !.filterBy = "NONE"], srt)

\* Mutant: the loading flag is not cleared.
reduceLoadCollectionComplete_KeepsLoading(st, srt, a) ==
    withFilteredAndSortedNotes(
        [st EXCEPT !.loaded = TRUE, !.notes = a.payload.notes], srt)

reduceLoadCollectionComplete(st, srt, a) ==
    withFilteredAndSortedNotes(
        [st EXCEPT !.loading = FALSE, !.loaded = TRUE,
                   !.notes = a.payload.notes], srt)

\* Mutant: the month is cleared, as the month filter clears the date.
reduceSelectDateFilter_ClearsMonth(st, srt, a) ==
    withFilteredAndSortedNotes(
        [st EXCEPT !.filterBy = "BY_DATE",
                   !.selectedMonth = null,
                   !.selectedDate =
                       [year  |-> getFullYear(a.payload.date),
                        month |-> getMonth(a.payload.date),
                        date  |-> getDate(a.payload.date)]], srt)

reduceSelectDateFilter(st, srt, a) ==
    withFilteredAndSortedNotes(
        [st EXCEPT !.filterBy = "BY_DATE",
                   !.selectedDate =
                       [year  |-> getFullYear(a.payload.date),
                        month |-> getMonth(a.payload.date),
                        date  |-> getDate(a.payload.date)]], srt)

\* Mutant: the date of an earlier date filter is not cleared.
reduceSelectMonthFilter_KeepsDate(st, srt, a) ==
    withFilteredAndSortedNotes(
        [st EXCEPT !.filterBy = "BY_MONTH",
                   !.selectedMonth =
                       [year  |-> getFullYear(a.payload.date),
                        month |-> getMonth(a.payload.date)]], srt)

\* Mutant: the month is stored and the date cleared, filterBy is not set.
reduceSelectMonthFilter_KeepsFilterBy(st, srt, a) ==
    withFilteredAndSortedNotes(
        [st EXCEPT !.selectedMonth =
                       [year  |-> getFullYear(a.payload.date),
                        month |-> getMonth(a.payload.date)],
                   !.selectedDate = null], srt)

reduceSelectMonthFilter(st, srt, a) ==
    withFilteredAndSortedNotes(
        [st EXCEPT !.filterBy = "BY_MONTH",
                   !.selectedMonth =
                       [year  |-> getFullYear(a.payload.date),
                        month |-> getMonth(a.payload.date)],
                   !.selectedDate = null], srt)

\* Mutant: a new sort key drops the filter.
reduceChangeSortOrder_ResetsFilter(st, srt, a) ==
    withFilteredAndSortedNotes(
        [st EXCEPT !.sortBy = a.payload.sortBy, !.filterBy = "NONE"], srt)

reduceChangeSortOrder(st, srt, a) ==
    withFilteredAndSortedNotes([st EXCEPT !.sortBy = a.payload.sortBy], srt)

\* Mutant: the direction is stored without recomputing the derived view.
reduceChangeSortDirection_NoRecompute(st, srt, a) ==
    Returned([st EXCEPT !.sortDirection = a.payload.sortDirection], srt)

reduceChangeSortDirection(st, srt, a) ==
    withFilteredAndSortedNotes(
        [st EXCEPT !.sortDirection = a.payload.sortDirection], srt)

reduceChangeViewMode(st, srt, a) ==
    Returned([st EXCEPT !.viewMode = a.payload.viewMode], srt)

\* Mutant: a note is selected only when notes has an entry with its id.
reduceSelectNote_OnlyIfPresent(st, srt, a) ==
    IF getIndexOfNote(st, a.payload.note) = -1 THEN Returned(st, srt)
    ELSE Returned([st EXCEPT !.selectedNote = a.payload.note], srt)

reduceSelectNote(st, srt, a) ==
    Returned([st EXCEPT !.selectedNote = a.payload.note], srt)

\* Mutant: with nothing selected the first note is selected (a toggle).
reduceDeselectNote_Toggles(st, srt, a) ==
    IF st.selectedNote = null /\ Len(st.notes) > 0
    THEN Returned([st EXCEPT !.selectedNote = st.notes[1]], srt)
    ELSE Returned([st EXCEPT !.selectedNote = null], srt)

reduceDeselectNote(st, srt, a) ==
    Returned([st EXCEPT !.selectedNote = null], srt)

\* Mutant: the note is put in front of the notes (unshift for push).
reduceAddNote_Prepends(st, srt, a) ==
    withFilteredAndSortedNotes(
        [st EXCEPT !.notes = <<a.payload.note>> \o st.notes], srt)

\* Mutant: the note is appended without recomputing the derived view.
reduceAddNote_NoRecompute(st, srt, a) ==
    Returned([st EXCEPT !.notes = Append(st.notes, a.payload.note)], srt)

reduceAddNote(st, srt, a) ==
    withFilteredAndSortedNotes(
        [st EXCEPT !.notes = Append(st.notes, a.payload.note)], srt)

reduceUpdateContribution(st, srt, a) ==
    Returned([st EXCEPT !.contribution = a.payload.contribution], srt)

reduceChangeNoteTitle(st, srt, a) ==
    withFilteredAndSortedNotes(
        withNoteUpdate(st, getIndexOfNote(st, a.payload.note),
            [title           |-> a.payload.title,
             contentFilePath |-> a.payload.contentFilePath,
             contentFileName |-> a.payload.contentFileName]), srt)

reduceDeleteNote(st, srt, a) ==
    withFilteredAndSortedNotes(
        withNoteDelete(st, getIndexOfNote(st, a.payload.note)), srt)

\* Mutant: the entry is rebuilt from the note of the payload, not from the
\* entry of notes.
reduceChangeNoteStacks_FromPayload(st, srt, a) ==
    IF getIndexOfNote(st, a.payload.note) = -1
    THEN withFilteredAndSortedNotes(st, srt)
    ELSE withFilteredAndSortedNotes(
             [st EXCEPT !.notes[getIndexOfNote(st, a.payload.note) + 1] =
                  Spread(a.payload.note, [stackIds |-> a.payload.stacks])], srt)

reduceChangeNoteStacks(st, srt, a) ==
    withFilteredAndSortedNotes(
        withNoteUpdate(st, getIndexOfNote(st, a.payload.note),
            [stackIds |-> a.payload.stacks]), srt)

noteCollectionReducer(st, srt, a) ==
    CASE a.type = "LOAD_COLLECTION"          -> reduceLoadCollection(st, srt, a)
      [] a.type = "LOAD_COLLECTION_COMPLETE" -> reduceLoadCollectionComplete(st, srt, a)
      [] a.type = "SELECT_DATE_FILTER"       -> reduceSelectDateFilter(st, srt, a)
      [] a.type = "SELECT_MONTH_FILTER"      -> reduceSelectMonthFilter(st, srt, a)
      [] a.type = "CHANGE_SORT_ORDER"        -> reduceChangeSortOrder(st, srt, a)
      [] a.type = "CHANGE_SORT_DIRECTION"    -> reduceChangeSortDirection(st, srt, a)
      [] a.type = "CHANGE_VIEW_MODE"         -> reduceChangeViewMode(st, srt, a)
      [] a.type = "SELECT_NOTE"              -> reduceSelectNote(st, srt, a)
      [] a.type = "DESELECT_NOTE"            -> reduceDeselectNote(st, srt, a)
      [] a.type = "ADD_NOTE"                 -> reduceAddNote(st, srt, a)
      [] a.type = "UPDATE_CONTRIBUTION"      -> reduceUpdateContribution(st, srt, a)
      [] a.type = "CHANGE_NOTE_TITLE"        -> reduceChangeNoteTitle(st, srt, a)
      [] a.type = "DELETE_NOTE"              -> reduceDeleteNote(st, srt, a)
      [] a.type = "CHANGE_NOTE_STACKS"       -> reduceChangeNoteStacks(st, srt, a)
      [] OTHER                               -> Returned(st, srt)

(***************************************************************************)
(* Initial snapshot and the inputs of the commands.                        *)
(***************************************************************************)
\* createNoteCollectionInitialState()
createNoteCollectionInitialState ==
    [loading               |-> FALSE,
     loaded                |-> FALSE,
     notes                 |-> <<>>,
     filteredAndSortedNotes |-> <<>>,
     selectedNote          |-> null,
     viewMode              |-> "VIEW_DETAIL",
     filterBy              |-> "NONE",
     selectedMonth         |-> null,
     selectedDate          |-> null,
     sortBy                |-> "CREATED",
     sortDirection         |-> "DESC",
     contribution          |-> [keys |-> <<>>]]

\* new Sorting<NoteItem>(): no index-property getter is set yet.
NewSorting == [indexPropGetter |-> "undefined", direction |-> "ASC"]

\* Two notes: "a" created 1970-01-05 10:00, "b" created 1969-12-20 00:00.
NoteA ==
    [id |-> "a", title |-> <<97>>, createdDatetime |-> 4 * MsPerDay + 36000000,
     contentFilePath |-> "/ws/a.md", contentFileName |-> "a.md",
     stackIds |-> <<>>, label |-> ""]
NoteB ==
    [id |-> "b", title |-> <<98>>, createdDatetime |-> (0 - 12) * MsPerDay,
     contentFilePath |-> "/ws/b.md", contentFileName |-> "b.md",
     stackIds |-> <<>>, label |-> "journal"]

NoteInputs == {NoteA, NoteB}

\* The note lists a load delivers.
LoadInputs == {<<>>, <<NoteA>>, <<NoteB>>, <<NoteA, NoteB>>, <<NoteB, NoteA>>}

\* Dates given to the filter commands: 1970-01-05 00:00 and 1970-01-06 01:00.
DateInputs == {4 * MsPerDay, 5 * MsPerDay + 3600000}

\* The rename applied by CHANGE_NOTE_TITLE: title "bc".
TitleInputs ==
    {[title |-> <<98, 99>>, contentFilePath |-> "/ws/bc.md",
      contentFileName |-> "bc.md"]}

StacksInputs == {<<"s1">>}

ContributionInputs == {[keys |-> <<"1970-01-05">>]}

ViewModeInputs == {"VIEW_DETAIL", "VIEW_SIMPLE"}

SortByInputs == {"CREATED", "TITLE"}

SortDirectionInputs == {"ASC", "DESC"}

\* The notes of a sequence, as a set.
Range(arr) == {arr[i] : i \in 1..Len(arr)}

(***************************************************************************)
(* GithubAccountsDialogComponent.  An account is written as its email, ""  *)
(* for an account that has none.  The GitHub provider and the account      *)
(* database are given to the component.  An authorization request is in    *)
(* flight until the provider has answered it: with one account and then    *)
(* its completion, or with an error.  A database call is pending until the *)
(* database has settled it, and calls settle in any order.  The database   *)
(* fulfils every call.                                                     *)
(***************************************************************************)
\* Bounds: rows of the account database, database calls not yet settled,
\* confirm dialogs opened.
MaxAccounts == 2
MaxPending == 2
MaxDialogs == 1

\* enum VcsAuthenticationTypes
AuthTypeInputs == {"BASIC", "OAUTH2_TOKEN"}

EmailInputs == {"e1", "e2"}

\* The errors an authorization ends with.
ErrorInputs == {"VcsPrimaryEmailNotExistsError", "VcsAuthenticateError"}

\* What the account database holds when the dialog is constructed.
AccountDBInputs == {<<>>, <<"e1">>}

\* The state after the constructor, over the database db.
GithubConstructed(db) ==
    /\ loginProcessing = FALSE
    /\ loginErrorCaught = FALSE
    /\ isEmpty = TRUE
    /\ accountsCount = 0
    /\ accounts = <<>>
    /\ formType = "BASIC"
    /\ accountDB = db
    /\ authorizations = <<>>
    /\ dbCalls = <<>>
    /\ confirmDialogs = 0
    /\ lifecycle = "constructed"
    /\ githubEvent = [name |-> "constructor", detail |-> ""]

InitGithub == GithubConstructed(<<>>)

\* What is recorded of the handler of CreateNewNoteDialogComponent that ran
\* last: its name; for a step of a createNewNote() call the label of the
\* call, the await it resumed from, the error caught, and whether the
\* promise of the call was rejected.
CreateEvent(name) ==
    [name |-> name, error |-> "", stage |-> "", label |-> "",
     rejected |-> FALSE]

\* CreateNewNoteDialogComponent after its constructor: the title control is
\* empty and bears the error of Validators.required.
InitNoteDialog ==
    /\ createNewNoteProcessing = FALSE
    /\ dialogClosed = FALSE
    /\ titleErrors = {"required"}
    /\ labelErrors = {}
    /\ formTitle = ""
    /\ formLabel = ""
    /\ alertDialogs = 0
    /\ createCalls = <<>>
    /\ createEvent = CreateEvent("constructor")

\* What is recorded of the method of VcsItemListManager that ran last: its
\* name; for updateItemSelection its index, and whether a selection change
\* was emitted; for handleItemEvent whether it threw; for a resolved
\* initWithFileChanges its previousSelections and the items created for it.
ManagerEvent(name) ==
    [name |-> name, index |-> -1, emitted |-> FALSE, thrown |-> FALSE,
     previous |-> {}, created |-> <<>>]

\* VcsItemListManager after its constructor.
InitManager ==
    /\ itemRefs = <<>>
    /\ selectedItems = {}
    /\ keyManager = "null"
    /\ streamCompleted = FALSE
    /\ initCalls = <<>>
    /\ initCount = 0
    /\ managerEvent = ManagerEvent("constructor")

\* The store as it is constructed.
\* The initial snapshot holds no note object.
InitObjects ==
    /\ heap = <<>>
    /\ noteRefs = <<>>
    /\ selectedRef = 0
    /\ heldRef = 0
    /\ heldValue = null

InitStore ==
    /\ state = createNoteCollectionInitialState
    /\ sorting = NewSorting
    /\ action = [type |-> "@ngrx/store/init"]
    /\ thrown = FALSE
    /\ selectedBefore = null
    /\ InitObjects

\* A call to the account database that has not settled; a getAllAccounts
\* call holds the rows the database has read for it.
DbCall(op, email) ==
    [op |-> op, email |-> email, read |-> FALSE, result |-> <<>>]

\* The calls without the i-th, which has settled (i counts from 1).
Settled(calls, i) ==
    SubSeq(calls, 1, i - 1) \o SubSeq(calls, i + 1, Len(calls))

\* The rows of the database without those of the email.
RowsWithout(rows, email) == SelectSeq(rows, LAMBDA e : e # email)

\* loadAccounts() up to its await: getAllAccounts is called.
loadAccounts(calls) == Append(calls, DbCall("getAllAccounts", ""))

\* Mutant: a login is started whether or not one is in progress.
login_NoGuard ==
    /\ lifecycle = "initialized"
    /\ loginProcessing' = TRUE
    /\ loginErrorCaught' = FALSE
    /\ authorizations' =
           CASE formType = "BASIC" ->
                    Append(authorizations,
                           [type |-> "BASIC", stage |-> "authorize"])
             [] formType = "OAUTH2_TOKEN" ->
                    Append(authorizations,
                           [type |-> "OAUTH2_TOKEN", stage |-> "authorize"])
             [] OTHER -> authorizations
    /\ githubEvent' = [name |-> "login", detail |-> "started"]
    /\ UNCHANGED <<isEmpty, accountsCount, accounts, formType, accountDB,
                   dbCalls, confirmDialogs, lifecycle, storeVars, noteDialogVars, managerVars>>

\* login()
login ==
    /\ lifecycle = "initialized"
    /\ IF loginProcessing
       THEN /\ githubEvent' = [name |-> "login", detail |-> "returned"]
            /\ UNCHANGED <<loginProcessing, loginErrorCaught, authorizations>>
       ELSE /\ loginProcessing' = TRUE
            /\ loginErrorCaught' = FALSE
            /\ authorizations' =
                   CASE formType = "BASIC" ->
                            Append(authorizations,
                                   [type |-> "BASIC", stage |-> "authorize"])
                     [] formType = "OAUTH2_TOKEN" ->
                            Append(authorizations,
                                   [type |-> "OAUTH2_TOKEN",
                                    stage |-> "authorize"])
                     [] OTHER -> authorizations
            /\ githubEvent' = [name |-> "login", detail |-> "started"]
    /\ UNCHANGED <<isEmpty, accountsCount, accounts, formType, accountDB,
                   dbCalls, confirmDialogs, lifecycle, storeVars, noteDialogVars, managerVars>>

\* The user picks an authentication type in the form.
SetType ==
    /\ lifecycle = "initialized"
    /\ \E t \in AuthTypeInputs :
          /\ t # formType
          /\ formType' = t
    /\ githubEvent' = [name |-> "setType", detail |-> ""]
    /\ UNCHANGED <<loginProcessing, loginErrorCaught, isEmpty, accountsCount,
                   accounts, accountDB, authorizations, dbCalls,
                   confirmDialogs, lifecycle, storeVars, noteDialogVars, managerVars>>

\* An authorization request emits its account.  An account without email
\* goes through ensureAccountEmail: the request goes on with
\* getPrimaryEmail, and the account gets whatever email that emits.  The
\* account then reaches the subscriber: handleLoginSuccess(account) calls
\* addNewAccount and resets the form with the type it has.  The request has
\* not completed yet.
AccountEmitted ==
    \E i \in 1..Len(authorizations) :
    \E email \in EmailInputs \cup {""} :
        /\ authorizations[i].stage \in {"authorize", "getPrimaryEmail"}
        /\ IF email = "" /\ authorizations[i].stage = "authorize"
           THEN /\ authorizations' =
                       [authorizations EXCEPT ![i].stage = "getPrimaryEmail"]
                /\ githubEvent' =
                       [name |-> "ensureAccountEmail", detail |-> ""]
                /\ UNCHANGED dbCalls
           ELSE /\ Len(dbCalls) < MaxPending
                /\ dbCalls' = Append(dbCalls, DbCall("addNewAccount", email))
                /\ authorizations' =
                       [authorizations EXCEPT ![i].stage = "emitted"]
                /\ githubEvent' =
                       [name |-> "handleLoginSuccess", detail |-> email]
        /\ UNCHANGED <<loginProcessing, loginErrorCaught, isEmpty,
                       accountsCount, accounts, formType, accountDB,
                       confirmDialogs, lifecycle, storeVars, noteDialogVars,
                       managerVars>>

\* An authorization request that has emitted its account completes:
\* finalize clears loginProcessing.
AuthorizationCompleted ==
    \E i \in 1..Len(authorizations) :
        /\ authorizations[i].stage = "emitted"
        /\ authorizations' = Settled(authorizations, i)
        /\ loginProcessing' = FALSE
        /\ githubEvent' = [name |-> "finalize", detail |-> "complete"]
        /\ UNCHANGED <<loginErrorCaught, isEmpty, accountsCount, accounts,
                       formType, accountDB, dbCalls, confirmDialogs,
                       lifecycle, storeVars, noteDialogVars, managerVars>>

\* Mutant: handleLoginFail treats every error alike and opens no dialog.
AuthorizationFailed_NeverOpensDialog ==
    \E i \in 1..Len(authorizations) :
    \E error \in ErrorInputs :
        /\ authorizations[i].stage \in {"authorize", "getPrimaryEmail"}
        /\ loginErrorCaught' = TRUE
        /\ UNCHANGED confirmDialogs
        /\ authorizations' = Settled(authorizations, i)
        /\ loginProcessing' = FALSE
        /\ githubEvent' = [name |-> "handleLoginFail", detail |-> error]
        /\ UNCHANGED <<isEmpty, accountsCount, accounts, formType,
                       accountDB, dbCalls, lifecycle, storeVars, noteDialogVars, managerVars>>

\* Mutant: finalize is missing.
AuthorizationFailed_NoFinalize ==
    \E i \in 1..Len(authorizations) :
    \E error \in ErrorInputs :
        /\ authorizations[i].stage \in {"authorize", "getPrimaryEmail"}
        /\ error = "VcsPrimaryEmailNotExistsError"
               => confirmDialogs < MaxDialogs
        /\ IF error = "VcsPrimaryEmailNotExistsError"
           THEN /\ confirmDialogs' = confirmDialogs + 1
                /\ UNCHANGED loginErrorCaught
           ELSE /\ loginErrorCaught' = TRUE
                /\ UNCHANGED confirmDialogs
        /\ authorizations' = Settled(authorizations, i)
        /\ UNCHANGED loginProcessing
        /\ githubEvent' = [name |-> "handleLoginFail", detail |-> error]
        /\ UNCHANGED <<isEmpty, accountsCount, accounts, formType,
                       accountDB, dbCalls, lifecycle, storeVars, noteDialogVars, managerVars>>

\* An authorization request fails, in authorizeByBasic,
\* authorizeByOauth2Token or getPrimaryEmail: handleLoginFail(error) opens
\* a confirm dialog for VcsPrimaryEmailNotExistsError and sets
\* loginErrorCaught for any other error; finalize then clears
\* loginProcessing.
AuthorizationFailed ==
    \E i \in 1..Len(authorizations) :
    \E error \in ErrorInputs :
        /\ authorizations[i].stage \in {"authorize", "getPrimaryEmail"}
        /\ error = "VcsPrimaryEmailNotExistsError"
               => confirmDialogs < MaxDialogs
        /\ IF error = "VcsPrimaryEmailNotExistsError"
           THEN /\ confirmDialogs' = confirmDialogs + 1
                /\ UNCHANGED loginErrorCaught
           ELSE /\ loginErrorCaught' = TRUE
                /\ UNCHANGED confirmDialogs
        /\ authorizations' = Settled(authorizations, i)
        /\ loginProcessing' = FALSE
        /\ githubEvent' = [name |-> "handleLoginFail", detail |-> error]
        /\ UNCHANGED <<isEmpty, accountsCount, accounts, formType,
                       accountDB, dbCalls, lifecycle, storeVars, noteDialogVars, managerVars>>

\* ngOnInit()
ngOnInit ==
    /\ lifecycle = "constructed"
    /\ lifecycle' = "initialized"
    /\ dbCalls' = loadAccounts(dbCalls)
    /\ githubEvent' = [name |-> "ngOnInit", detail |-> ""]
    /\ UNCHANGED <<loginProcessing, loginErrorCaught, isEmpty, accountsCount,
                   accounts, formType, accountDB, authorizations,
                   confirmDialogs, storeVars, noteDialogVars, managerVars>>

\* loadAccounts(), called from outside: a reload of the accounts displayed.
LoadAccountsCalled ==
    /\ lifecycle = "initialized"
    /\ Len(dbCalls) < MaxPending
    /\ dbCalls' = loadAccounts(dbCalls)
    /\ githubEvent' = [name |-> "loadAccounts", detail |-> "called"]
    /\ UNCHANGED <<loginProcessing, loginErrorCaught, isEmpty, accountsCount,
                   accounts, formType, accountDB, authorizations,
                   confirmDialogs, lifecycle, storeVars, noteDialogVars,
                   managerVars>>

\* removeAccount(account)
removeAccount ==
    /\ lifecycle = "initialized"
    /\ Len(dbCalls) < MaxPending
    /\ \E email \in EmailInputs :
          /\ dbCalls' = Append(dbCalls, DbCall("deleteAccountByEmail", email))
          /\ githubEvent' = [name |-> "removeAccount", detail |-> email]
    /\ UNCHANGED <<loginProcessing, loginErrorCaught, isEmpty, accountsCount,
                   accounts, formType, accountDB, authorizations,
                   confirmDialogs, lifecycle, storeVars, noteDialogVars, managerVars>>

\* deleteAccountByEmail is fulfilled: the rows of the email are gone, and
\* the continuation calls loadAccounts().
DeleteSettled ==
    \E i \in 1..Len(dbCalls) :
        /\ dbCalls[i].op = "deleteAccountByEmail"
        /\ accountDB' = RowsWithout(accountDB, dbCalls[i].email)
        /\ dbCalls' = loadAccounts(Settled(dbCalls, i))
        /\ githubEvent' = [name |-> "deleteAccountByEmail",
                           detail |-> dbCalls[i].email]
        /\ UNCHANGED <<loginProcessing, loginErrorCaught, isEmpty,
                       accountsCount, accounts, formType, authorizations,
                       confirmDialogs, lifecycle, storeVars, noteDialogVars, managerVars>>

\* addNewAccount is fulfilled: the account is a row of the database, and
\* the continuation calls loadAccounts().
AddSettled ==
    \E i \in 1..Len(dbCalls) :
        /\ dbCalls[i].op = "addNewAccount"
        /\ Len(accountDB) < MaxAccounts
        /\ accountDB' = Append(accountDB, dbCalls[i].email)
        /\ dbCalls' = loadAccounts(Settled(dbCalls, i))
        /\ githubEvent' = [name |-> "addNewAccount",
                           detail |-> dbCalls[i].email]
        /\ UNCHANGED <<loginProcessing, loginErrorCaught, isEmpty,
                       accountsCount, accounts, formType, authorizations,
                       confirmDialogs, lifecycle, storeVars, noteDialogVars, managerVars>>

\* The database reads its rows for a getAllAccounts call.
AccountsRead ==
    \E i \in 1..Len(dbCalls) :
        /\ dbCalls[i].op = "getAllAccounts"
        /\ ~dbCalls[i].read
        /\ dbCalls' = [dbCalls EXCEPT ![i].read = TRUE,
                                      ![i].result = accountDB]
        /\ githubEvent' = [name |-> "getAllAccounts", detail |-> ""]
        /\ UNCHANGED <<loginProcessing, loginErrorCaught, isEmpty,
                       accountsCount, accounts, formType, accountDB,
                       authorizations, confirmDialogs, lifecycle, storeVars, noteDialogVars, managerVars>>

\* loadAccounts() after its await: the rows read are displayed.
LoadAccountsResumed ==
    \E i \in 1..Len(dbCalls) :
        /\ dbCalls[i].op = "getAllAccounts"
        /\ dbCalls[i].read
        /\ accountsCount' = Len(dbCalls[i].result)
        /\ isEmpty' = (Len(dbCalls[i].result) = 0)
        /\ accounts' = dbCalls[i].result
        /\ dbCalls' = Settled(dbCalls, i)
        /\ githubEvent' = [name |-> "loadAccounts", detail |-> ""]
        /\ UNCHANGED <<loginProcessing, loginErrorCaught, formType,
                       accountDB, authorizations, confirmDialogs, lifecycle,
                       storeVars, noteDialogVars, managerVars>>

InitGithubDialog ==
    /\ \E db \in AccountDBInputs : GithubConstructed(db)
    /\ InitStore
    /\ InitNoteDialog
    /\ InitManager

NextGithub ==
    \/ ngOnInit
    \/ SetType
    \/ LoadAccountsCalled
    \/ login
    \/ AccountEmitted
    \/ AuthorizationCompleted
    \/ AuthorizationFailed
    \/ removeAccount
    \/ DeleteSettled
    \/ AddSettled
    \/ AccountsRead
    \/ LoadAccountsResumed

SpecGithub == InitGithubDialog /\ [][NextGithub]_vars

\* The dialog without removals: logins, the provider's answers, and the
\* database calls that logins and ngOnInit lead to.
NextLogin ==
    \/ ngOnInit
    \/ SetType
    \/ login
    \/ AccountEmitted
    \/ AuthorizationCompleted
    \/ AuthorizationFailed
    \/ AddSettled
    \/ AccountsRead
    \/ LoadAccountsResumed

SpecLogin == InitGithubDialog /\ [][NextLogin]_vars

\* The handlers and answers that read or write loginProcessing: logins and
\* what the provider answers, with reloads.  The database calls they make
\* stay pending.
NextLoginFlow ==
    \/ ngOnInit
    \/ SetType
    \/ LoadAccountsCalled
    \/ login
    \/ AccountEmitted
    \/ AuthorizationCompleted
    \/ AuthorizationFailed

\* The provider answers every request: a request in flight emits its account
\* and completes, or fails.
SpecLoginLive ==
    /\ InitGithubDialog
    /\ [][NextLoginFlow]_vars
    /\ WF_vars(AccountEmitted \/ AuthorizationCompleted \/ AuthorizationFailed)

(***************************************************************************)
(* CreateNewNoteDialogComponent.  A createNewNote() call is in flight from *)
(* its first statement until its finally block has run; it waits first for *)
(* collection.createNewNote and then, when a label was given, for          *)
(* vcs.keepDirectory.  A control's errors are written as the set of their  *)
(* keys.                                                                   *)
(***************************************************************************)
\* The title control: empty, or a title.
NoteTitleInputs == {"", "t"}

\* The label control: empty, or a label.
LabelInputs == {"", "l"}

\* What an awaited promise settles with: fulfilled, or rejected with an
\* error of one of these classes, or rejected with null or undefined
\* (written "null").
NoteErrorInputs ==
    {"NoteContentFileAlreadyExistsError", "NoteOutsideWorkspaceError", "Error",
     "null"}

SettleInputs == {"fulfilled"} \cup NoteErrorInputs

\* Validators.required on a control's value.
required(value) == IF value = "" THEN {"required"} ELSE {}

\* The user edits the title; the form computes the control's errors anew,
\* from the one rule of the title, Validators.required.
SetTitle ==
    /\ ~dialogClosed
    /\ \E t \in NoteTitleInputs :
          /\ t # formTitle
          /\ formTitle' = t
          /\ titleErrors' = required(t)
    /\ createEvent' = CreateEvent("setTitle")
    /\ UNCHANGED <<createNewNoteProcessing, dialogClosed, labelErrors,
                   formLabel, alertDialogs, createCalls, storeVars,
                   githubVars, managerVars>>

\* The user edits the label; the form computes the control's errors anew,
\* and the label has no rule that could give it one.
SetLabel ==
    /\ ~dialogClosed
    /\ \E l \in LabelInputs :
          /\ l # formLabel
          /\ formLabel' = l
    /\ labelErrors' = {}
    /\ createEvent' = CreateEvent("setLabel")
    /\ UNCHANGED <<createNewNoteProcessing, dialogClosed, titleErrors,
                   formTitle, alertDialogs, createCalls, storeVars,
                   githubVars, managerVars>>

\* createNewNote() up to its first await.
createNewNote ==
    /\ ~dialogClosed
    /\ Len(createCalls) < MaxPending
    /\ createNewNoteProcessing' = TRUE
    /\ createCalls' = Append(createCalls, [label |-> formLabel,
                                           stage |-> "createNewNote"])
    /\ createEvent' = [CreateEvent("createNewNote") EXCEPT
                          !.label = formLabel]
    /\ UNCHANGED <<dialogClosed, titleErrors, labelErrors, formTitle,
                   formLabel, alertDialogs, storeVars, githubVars,
                   managerVars>>

\* close()
close ==
    /\ dialogClosed' = TRUE
    /\ createEvent' = CreateEvent("close")
    /\ UNCHANGED <<createNewNoteProcessing, titleErrors, labelErrors,
                   formTitle, formLabel, alertDialogs, createCalls,
                   storeVars, githubVars, managerVars>>

\* The call goes on to its second await: keepDirectory is called.
AwaitKeepDirectory(i) ==
    /\ createCalls' = [createCalls EXCEPT ![i].stage = "keepDirectory"]
    /\ createEvent' = [CreateEvent("keepDirectory") EXCEPT
                          !.stage = "createNewNote",
                          !.label = createCalls[i].label]
    /\ UNCHANGED <<createNewNoteProcessing, dialogClosed, titleErrors,
                   labelErrors, alertDialogs>>

\* handleCreateNewNoteSuccess(), then the finally block.
handleCreateNewNoteSuccess(i) ==
    /\ dialogClosed' = TRUE
    /\ createNewNoteProcessing' = FALSE
    /\ createCalls' = Settled(createCalls, i)
    /\ createEvent' = [CreateEvent("handleCreateNewNoteSuccess") EXCEPT
                          !.stage = createCalls[i].stage,
                          !.label = createCalls[i].label]
    /\ UNCHANGED <<titleErrors, labelErrors, alertDialogs>>

\* handleCreateNewNoteFail(error), then the finally block.  For null or
\* undefined neither instanceof holds and reading error.message throws
\* before the alert dialog is opened: the TypeError leaves the catch block
\* and the promise of createNewNote() is rejected with it.
handleCreateNewNoteFail(i, error) ==
    /\ titleErrors' = IF error = "NoteContentFileAlreadyExistsError"
                      THEN {"contentFileExists"} ELSE titleErrors
    /\ labelErrors' = IF error = "NoteOutsideWorkspaceError"
                      THEN {"outsideWorkspace"} ELSE labelErrors
    /\ alertDialogs' =
           IF error \notin {"NoteContentFileAlreadyExistsError",
                            "NoteOutsideWorkspaceError", "null"}
           THEN alertDialogs + 1 ELSE alertDialogs
    /\ createNewNoteProcessing' = FALSE
    /\ createCalls' = Settled(createCalls, i)
    /\ createEvent' = [CreateEvent("handleCreateNewNoteFail") EXCEPT
                          !.error = error,
                          !.stage = createCalls[i].stage,
                          !.label = createCalls[i].label,
                          !.rejected = (error = "null")]
    /\ UNCHANGED dialogClosed

\* An awaited promise of a createNewNote() call settles and the call goes
\* on: a rejection is caught; after collection.createNewNote a call with a
\* label waits for keepDirectory; otherwise the call has succeeded.
CreateNewNoteResumed ==
    /\ \E i \in 1..Len(createCalls) :
       \E outcome \in SettleInputs :
          /\ outcome = "Error" => alertDialogs < MaxDialogs
          /\ IF outcome # "fulfilled"
             THEN handleCreateNewNoteFail(i, outcome)
             ELSE IF createCalls[i].stage = "createNewNote"
                     /\ createCalls[i].label # ""
                  THEN AwaitKeepDirectory(i)
                  ELSE handleCreateNewNoteSuccess(i)
    /\ UNCHANGED <<formTitle, formLabel, storeVars, githubVars, managerVars>>

InitCreateNewNoteDialog ==
    /\ InitNoteDialog
    /\ InitStore
    /\ InitGithub
    /\ InitManager

NextNoteDialog ==
    \/ SetTitle
    \/ SetLabel
    \/ createNewNote
    \/ close
    \/ CreateNewNoteResumed

SpecNoteDialog == InitCreateNewNoteDialog /\ [][NextNoteDialog]_vars

(***************************************************************************)
(* VcsItemListManager.  An item reference is written with its id, the      *)
(* checked flag of its config, and the number of the initWithFileChanges   *)
(* call that created it, which tells apart two references with one id.     *)
(* itemMaker.create makes one item for each file change, in order, with    *)
(* the id of the file change and checked false.  The key manager is null   *)
(* or set.                                                                 *)
(***************************************************************************)
\* Bound: initWithFileChanges calls made.
MaxInits == 2

ItemIdInputs == {"x", "y"}

\* The file changes given to initWithFileChanges, as the ids of the items
\* made from them.
FileChangeInputs == {<<>>, <<"x">>, <<"y">>, <<"x", "y">>, <<"y", "x">>}

\* The ids of item references.
RefIds(refs) == {refs[k].id : k \in 1..Len(refs)}

\* refs.findIndex(ref => ref.id === id), 0-based
findIndexOfRef(refs, id) ==
    IF id \in RefIds(refs)
    THEN (CHOOSE k \in 1..Len(refs) :
              /\ refs[k].id = id
              /\ \A j \in 1..(k - 1) : refs[j].id # id) - 1
    ELSE -1

\* itemMaker.create(fileChanges), for the call of number n
create(fileChanges, n) ==
    [k \in 1..Len(fileChanges) |->
        [id |-> fileChanges[k], checked |-> FALSE, call |-> n]]

\* getSelectedItems(): for each selected id, the first reference with it.
getSelectedItems(refs, selected) ==
    {refs[findIndexOfRef(refs, id) + 1] : id \in selected \cap RefIds(refs)}

\* initWithFileChanges(fileChanges) up to its await: the selection is
\* saved and cleared, the item references are removed, the items are
\* asked for.
initWithFileChanges ==
    /\ initCount < MaxInits
    /\ \E fileChanges \in FileChangeInputs :
          initCalls' = Append(initCalls,
                              [previousSelections |-> selectedItems,
                               fileChanges |-> fileChanges,
                               call |-> initCount + 1])
    /\ initCount' = initCount + 1
    /\ selectedItems' = {}
    /\ itemRefs' = <<>>
    /\ managerEvent' = ManagerEvent("initWithFileChanges")
    /\ UNCHANGED <<keyManager, streamCompleted, storeVars, githubVars,
                   noteDialogVars>>

\* The previous selections restored on the items created: for each id
\* that was selected, the first reference with that id is checked.
Restored(refs, previousSelections) ==
    [k \in 1..Len(refs) |->
        IF /\ refs[k].id \in previousSelections
           /\ findIndexOfRef(refs, refs[k].id) = k - 1
        THEN [refs[k] EXCEPT !.checked = TRUE] ELSE refs[k]]

\* initWithFileChanges after its await: the items have been created; those
\* whose id was selected are checked and selected again, and all of them
\* are pushed to the item references.
ItemsCreated ==
    /\ \E i \in 1..Len(initCalls) :
          LET refs == Restored(create(initCalls[i].fileChanges,
                                      initCalls[i].call),
                               initCalls[i].previousSelections)
          IN  /\ selectedItems' =
                     selectedItems
                         \cup (initCalls[i].previousSelections
                                   \cap RefIds(refs))
              /\ itemRefs' = itemRefs \o refs
              /\ initCalls' = Settled(initCalls, i)
              /\ managerEvent' =
                     [ManagerEvent("itemsCreated") EXCEPT
                         !.previous = initCalls[i].previousSelections,
                         !.created = refs]
    /\ keyManager' = "set"
    /\ UNCHANGED <<streamCompleted, initCount, storeVars, githubVars,
                   noteDialogVars>>

\* _updateKeyManager(), called from outside: a key manager over the item
\* references.
updateKeyManager ==
    /\ keyManager' = "set"
    /\ managerEvent' = ManagerEvent("updateKeyManager")
    /\ UNCHANGED <<itemRefs, selectedItems, streamCompleted, initCalls,
                   initCount, storeVars, githubVars, noteDialogVars>>

\* The item references after select(false) or deselect(false) of the item
\* component of each: the component is given the config of its reference
\* and writes the checked flag of it, emitting no event.
AllChecked(refs, checked) ==
    [k \in 1..Len(refs) |-> [refs[k] EXCEPT !.checked = checked]]

\* selectAllItems()
selectAllItems ==
    /\ itemRefs' = AllChecked(itemRefs, TRUE)
    /\ selectedItems' = selectedItems \cup RefIds(itemRefs)
    /\ managerEvent' = ManagerEvent("selectAllItems")
    /\ UNCHANGED <<keyManager, streamCompleted, initCalls,
                   initCount, storeVars, githubVars, noteDialogVars>>

\* deselectAllItems()
deselectAllItems ==
    /\ itemRefs' = AllChecked(itemRefs, FALSE)
    /\ selectedItems' = {}
    /\ managerEvent' = ManagerEvent("deselectAllItems")
    /\ UNCHANGED <<keyManager, streamCompleted, initCalls,
                   initCount, storeVars, githubVars, noteDialogVars>>

\* updateItemSelection(index, selected): the selected ids it leaves.
updateItemSelection(selected, index, checked) ==
    IF index < 0 \/ index >= Len(itemRefs)
    THEN selected
    ELSE LET id == itemRefs[index + 1].id
         IN  IF id \in selected /\ ~checked THEN selected \ {id}
             ELSE IF id \notin selected /\ checked THEN selected \cup {id}
             ELSE selected

\* selectionChangeStream.next() reaches subscribers until the stream has
\* completed.
Emitted(selected, after) == selected # after /\ ~streamCompleted

\* updateItemSelection(index, selected), called from outside.
UpdateItemSelection ==
    /\ \E index \in -1..Len(itemRefs) :
       \E checked \in BOOLEAN :
          /\ selectedItems' = updateItemSelection(selectedItems, index, checked)
          /\ managerEvent' =
                 [ManagerEvent("updateItemSelection") EXCEPT
                     !.index = index,
                     !.emitted = Emitted(selectedItems, selectedItems')]
    /\ UNCHANGED <<itemRefs, keyManager, streamCompleted, initCalls,
                   initCount, storeVars, githubVars, noteDialogVars>>

\* handleItemEvent(event) for an UPDATE_CHECKED event: with no key manager
\* setActiveItem throws; otherwise the selection of the item's index is
\* updated.
handleItemEvent ==
    /\ \E id \in ItemIdInputs :
       \E checked \in BOOLEAN :
          IF keyManager = "null"
          THEN /\ managerEvent' =
                      [ManagerEvent("handleItemEvent") EXCEPT !.thrown = TRUE]
               /\ UNCHANGED selectedItems
          ELSE /\ selectedItems' =
                      updateItemSelection(selectedItems,
                                          findIndexOfRef(itemRefs, id),
                                          checked)
               /\ managerEvent' =
                      [ManagerEvent("handleItemEvent") EXCEPT
                          !.index = findIndexOfRef(itemRefs, id),
                          !.emitted = Emitted(selectedItems, selectedItems')]
    /\ UNCHANGED <<itemRefs, keyManager, streamCompleted, initCalls,
                   initCount, storeVars, githubVars, noteDialogVars>>

\* destroy()
destroy ==
    /\ keyManager' = "null"
    /\ selectedItems' = {}
    /\ itemRefs' = <<>>
    /\ streamCompleted' = TRUE
    /\ managerEvent' = ManagerEvent("destroy")
    /\ UNCHANGED <<initCalls, initCount, storeVars, githubVars,
                   noteDialogVars>>

InitItemListManager ==
    /\ InitManager
    /\ InitStore
    /\ InitGithub
    /\ InitNoteDialog

NextManager ==
    \/ initWithFileChanges
    \/ ItemsCreated
    \/ updateKeyManager
    \/ selectAllItems
    \/ deselectAllItems
    \/ UpdateItemSelection
    \/ handleItemEvent
    \/ destroy

SpecManager == InitItemListManager /\ [][NextManager]_vars

(***************************************************************************)
(* The store: one action per command.                                      *)
(***************************************************************************)
Init ==
    /\ state = createNoteCollectionInitialState
    /\ sorting = NewSorting
    /\ action = [type |-> "@ngrx/store/init"]
    /\ thrown = FALSE
    /\ selectedBefore = null
    /\ InitObjects
    /\ InitGithub
    /\ InitNoteDialog
    /\ InitManager

\* The store takes the result r of the reducer for the action a: the
\* snapshot returned replaces the snapshot; when the reducer threw, the
\* snapshot stays.
CommitSnapshot(r, a) ==
    /\ state' = IF r.thrown THEN state ELSE r.state
    /\ sorting' = r.sorting
    /\ thrown' = r.thrown
    /\ action' = a
    /\ selectedBefore' = state.selectedNote
    /\ UNCHANGED <<githubVars, noteDialogVars, managerVars>>

\* The snapshot is taken as a value: the note objects are not followed.
Commit(r, a) ==
    /\ CommitSnapshot(r, a)
    /\ UNCHANGED objectVars

\* store.dispatch(a)
Dispatch(a) == Commit(noteCollectionReducer(state, sorting, a), a)

\* The references that are in use, each once, in the order of the notes,
\* then that of selectedNote, then the one the reader holds.
RECURSIVE Live(_)
Live(refs) ==
    IF refs = <<>> THEN <<>>
    ELSE LET before == Live(SubSeq(refs, 1, Len(refs) - 1))
             ref == refs[Len(refs)]
         IN  IF ref = 0 \/ \E k \in 1..Len(before) : before[k] = ref
             THEN before
             ELSE Append(before, ref)

\* Where the collector has moved the object of a reference.
Moved(live, ref) ==
    IF ref = 0 THEN 0 ELSE CHOOSE k \in 1..Len(live) : live[k] = ref

\* The objects o and the object the reader holds after a collection: the
\* objects that neither the snapshot nor the reader refers to are gone,
\* those in use are as they were and have moved together.
Collected(o, held) ==
    LET live == Live(o.noteRefs \o <<o.selectedRef, held>>)
    IN  [heap        |-> [k \in 1..Len(live) |-> o.heap[live[k]]],
         noteRefs    |-> [i \in 1..Len(o.noteRefs) |->
                             Moved(live, o.noteRefs[i])],
         selectedRef |-> Moved(live, o.selectedRef),
         heldRef     |-> Moved(live, held)]

Referred(c) ==
    /\ heap' = c.heap
    /\ noteRefs' = c.noteRefs
    /\ selectedRef' = c.selectedRef
    /\ heldRef' = c.heldRef

\* The snapshot is taken with its objects: the store refers to the objects
\* of the snapshot returned, or to those it had when the reducer threw; the
\* snapshot replaced is dropped.
CommitObjects(r, o) ==
    /\ Referred(Collected(IF r.thrown
                            THEN Objects(heap, noteRefs, selectedRef)
                            ELSE o, heldRef))
    /\ UNCHANGED heldValue

\* store.dispatch(a), the note objects followed.
DispatchObjects(a) ==
    /\ CommitSnapshot(noteCollectionReducer(state, sorting, a), a)
    /\ CommitObjects(noteCollectionReducer(state, sorting, a),
                     noteCollectionReducerObjects(
                         Objects(heap, noteRefs, selectedRef), state, a))

LoadCollection ==
    /\ Dispatch([type |-> "LOAD_COLLECTION"])

LoadCollectionComplete ==
    \E notes \in LoadInputs :
        /\ Dispatch([type |-> "LOAD_COLLECTION_COMPLETE", payload |-> [notes |-> notes]])

SelectDateFilter ==
    \E date \in DateInputs :
        /\ Dispatch([type |-> "SELECT_DATE_FILTER", payload |-> [date |-> date]])

SelectMonthFilter ==
    \E date \in DateInputs :
        /\ Dispatch([type |-> "SELECT_MONTH_FILTER", payload |-> [date |-> date]])

ChangeSortOrder ==
    \E sortBy \in SortByInputs :
        /\ Dispatch([type |-> "CHANGE_SORT_ORDER", payload |-> [sortBy |-> sortBy]])

ChangeSortDirection ==
    \E sortDirection \in SortDirectionInputs :
        /\ Dispatch([type |-> "CHANGE_SORT_DIRECTION",
                  payload |-> [sortDirection |-> sortDirection]])

ChangeViewMode ==
    \E viewMode \in ViewModeInputs :
        /\ Dispatch([type |-> "CHANGE_VIEW_MODE", payload |-> [viewMode |-> viewMode]])

\* The note selected is any note: an entry of notes, a note whose id is not
\* in notes, or a copy of an entry taken before a command changed it.
SelectNote ==
    \E note \in Range(state.notes) \cup NoteInputs :
        /\ Dispatch([type |-> "SELECT_NOTE", payload |-> [note |-> note]])

DeselectNote ==
    /\ Dispatch([type |-> "DESELECT_NOTE"])

AddNote ==
    /\ Len(state.notes) < MaxNotes
    /\ \E note \in NoteInputs :
        /\ Dispatch([type |-> "ADD_NOTE", payload |-> [note |-> note]])

UpdateContribution ==
    \E contribution \in ContributionInputs :
        /\ Dispatch([type |-> "UPDATE_CONTRIBUTION",
                  payload |-> [contribution |-> contribution]])

ChangeNoteTitle ==
    \E note \in NoteInputs, t \in TitleInputs :
        /\ Dispatch([type |-> "CHANGE_NOTE_TITLE",
                  payload |-> [note |-> note, title |-> t.title,
                               contentFilePath |-> t.contentFilePath,
                               contentFileName |-> t.contentFileName]])

DeleteNote ==
    \E note \in NoteInputs :
        /\ Dispatch([type |-> "DELETE_NOTE", payload |-> [note |-> note]])

ChangeNoteStacks ==
    \E note \in NoteInputs, stacks \in StacksInputs :
        /\ Dispatch([type |-> "CHANGE_NOTE_STACKS",
                  payload |-> [note |-> note, stacks |-> stacks]])

Next ==
    \/ LoadCollection
    \/ LoadCollectionComplete
    \/ SelectDateFilter
    \/ SelectMonthFilter
    \/ ChangeSortOrder
    \/ ChangeSortDirection
    \/ ChangeViewMode
    \/ SelectNote
    \/ DeselectNote
    \/ AddNote
    \/ UpdateContribution
    \/ ChangeNoteTitle
    \/ DeleteNote
    \/ ChangeNoteStacks

Spec == Init /\ [][Next]_vars

(***************************************************************************)
(* Slices of the store.  The snapshots reachable by all fourteen commands  *)
(* are too many to enumerate, so a property is verified on the commands    *)
(* that write a field it reads.  A command left out of a slice writes only *)
(* fields that neither the slice's commands nor its properties read.       *)
(***************************************************************************)
\* Notes and selection, unfiltered or filtered by month; the sort
\* configuration stays as constructed.
NextSelection ==
    \/ LoadCollectionComplete
    \/ SelectMonthFilter
    \/ SelectNote
    \/ DeselectNote
    \/ AddNote
    \/ ChangeNoteTitle
    \/ DeleteNote
    \/ ChangeNoteStacks

SpecSelection == Init /\ [][NextSelection]_vars

\* SelectNote of an entry of notes, as a list of the notes dispatches it.
SelectNoteOfNotes ==
    \E note \in Range(state.notes) :
        /\ Dispatch([type |-> "SELECT_NOTE", payload |-> [note |-> note]])

\* Notes and selection where only a note that is in notes is selected.
NextSelectionOfNotes ==
    \/ LoadCollectionComplete
    \/ SelectMonthFilter
    \/ SelectNoteOfNotes
    \/ DeselectNote
    \/ AddNote
    \/ ChangeNoteTitle
    \/ DeleteNote
    \/ ChangeNoteStacks

SpecSelectionOfNotes == Init /\ [][NextSelectionOfNotes]_vars

\* The commands that make, store or drop a note object, with the note
\* objects followed.
LoadCollectionCompleteObjects ==
    \E notes \in LoadInputs :
        /\ DispatchObjects([type |-> "LOAD_COLLECTION_COMPLETE",
                            payload |-> [notes |-> notes]])

SelectNoteObjects ==
    \E note \in Range(state.notes) \cup NoteInputs :
        /\ DispatchObjects([type |-> "SELECT_NOTE",
                            payload |-> [note |-> note]])

DeselectNoteObjects ==
    /\ DispatchObjects([type |-> "DESELECT_NOTE"])

AddNoteObjects ==
    /\ Len(state.notes) < MaxNotes
    /\ \E note \in NoteInputs :
        /\ DispatchObjects([type |-> "ADD_NOTE", payload |-> [note |-> note]])

ChangeNoteTitleObjects ==
    \E note \in NoteInputs, t \in TitleInputs :
        /\ DispatchObjects([type |-> "CHANGE_NOTE_TITLE",
                  payload |-> [note |-> note, title |-> t.title,
                               contentFilePath |-> t.contentFilePath,
                               contentFileName |-> t.contentFileName]])

DeleteNoteObjects ==
    \E note \in NoteInputs :
        /\ DispatchObjects([type |-> "DELETE_NOTE",
                            payload |-> [note |-> note]])

ChangeNoteStacksObjects ==
    \E note \in NoteInputs, stacks \in StacksInputs :
        /\ DispatchObjects([type |-> "CHANGE_NOTE_STACKS",
                  payload |-> [note |-> note, stacks |-> stacks]])

\* A reader of the store takes the selectedNote of the snapshot, as a
\* subscriber of the selection does, and lets go of the one it held.
TakeSelectedNote ==
    /\ selectedRef # 0
    /\ heldRef # selectedRef
    /\ heldValue' = heap[selectedRef]
    /\ Referred(Collected(Objects(heap, noteRefs, selectedRef), selectedRef))
    /\ UNCHANGED <<state, sorting, action, thrown, selectedBefore,
                   githubVars, noteDialogVars, managerVars>>

NextObjects ==
    \/ TakeSelectedNote
    \/ LoadCollectionCompleteObjects
    \/ SelectNoteObjects
    \/ DeselectNoteObjects
    \/ AddNoteObjects
    \/ ChangeNoteTitleObjects
    \/ DeleteNoteObjects
    \/ ChangeNoteStacksObjects

SpecObjects == Init /\ [][NextObjects]_vars

\* Notes, filter and sort: nothing is selected.
NextView ==
    \/ LoadCollectionComplete
    \/ SelectDateFilter
    \/ SelectMonthFilter
    \/ ChangeSortOrder
    \/ ChangeSortDirection
    \/ AddNote
    \/ ChangeNoteTitle
    \/ DeleteNote
    \/ ChangeNoteStacks

SpecView == Init /\ [][NextView]_vars

\* Loaded notes under every filter, sort key and direction, renamed and
\* deleted but never added to: the ids of notes stay distinct.
NextOrder ==
    \/ LoadCollectionComplete
    \/ SelectDateFilter
    \/ SelectMonthFilter
    \/ ChangeSortOrder
    \/ ChangeSortDirection
    \/ ChangeNoteTitle
    \/ DeleteNote

SpecOrder == Init /\ [][NextOrder]_vars

\* The flags, the view mode and the contribution next to notes, filter,
\* sort key and selection: the commands whose effect on the fields they do
\* not own is in question.
NextFrame ==
    \/ LoadCollection
    \/ LoadCollectionComplete
    \/ SelectDateFilter
    \/ SelectMonthFilter
    \/ ChangeSortOrder
    \/ ChangeViewMode
    \/ SelectNote
    \/ AddNote
    \/ UpdateContribution

SpecFrame == Init /\ [][NextFrame]_vars

\* The reducer is an exported function of (state, action): a caller may hand
\* it a snapshot it built itself.  The snapshots handed in here carry every
\* combination of filter mode and selectors, also a filter mode without its
\* selector; the derived view of a snapshot is the recomputed one where it
\* can be recomputed and empty where it cannot.
SnapshotInputs ==
    {LET st == [createNoteCollectionInitialState EXCEPT
                    !.loaded = TRUE,
                    !.notes = notes,
                    !.filterBy = filterBy,
                    !.selectedMonth = selectedMonth,
                    !.selectedDate = selectedDate]
         r  == withFilteredAndSortedNotes(st, NewSorting)
     IN  IF r.thrown THEN st ELSE r.state :
        notes \in LoadInputs,
        filterBy \in {"NONE", "BY_MONTH", "BY_DATE"},
        selectedMonth \in {null, [year |-> 1970, month |-> 0]},
        selectedDate \in {null, [year |-> 1970, month |-> 0, date |-> 5]}}

InitSnapshot ==
    /\ state \in SnapshotInputs
    /\ sorting = NewSorting
    /\ action = [type |-> "@ngrx/store/init"]
    /\ thrown = FALSE
    /\ selectedBefore = null
    /\ InitObjects
    /\ InitGithub
    /\ InitNoteDialog
    /\ InitManager

SpecSnapshot == InitSnapshot /\ [][NextView]_vars

\* One command applied to a snapshot that earlier commands have produced.
\* The snapshots are those the reducer returns, from the initial one, for a
\* load, then a month filter, a date filter, a sort key or direction, a
\* rename, a selection, a contribution, a view mode and the start of a load,
\* each of them applied or left out; every one of the fourteen commands is
\* then applied to every one of them.
Apply(cur, a) ==
    LET r == noteCollectionReducer(cur.state, cur.sorting, a)
    IN  [state   |-> IF r.thrown THEN cur.state ELSE r.state,
         sorting |-> r.sorting]

AfterLoad ==
    {IF applied
     THEN Apply([state |-> createNoteCollectionInitialState, sorting |-> NewSorting],
                [type |-> "LOAD_COLLECTION_COMPLETE", payload |-> [notes |-> notes]])
     ELSE [state |-> createNoteCollectionInitialState, sorting |-> NewSorting] :
        applied \in BOOLEAN, notes \in LoadInputs}

AfterMonthFilter ==
    {IF applied
     THEN Apply(cur, [type |-> "SELECT_MONTH_FILTER", payload |-> [date |-> date]])
     ELSE cur :
        cur \in AfterLoad, applied \in BOOLEAN, date \in DateInputs}

AfterDateFilter ==
    {IF applied
     THEN Apply(cur, [type |-> "SELECT_DATE_FILTER", payload |-> [date |-> date]])
     ELSE cur :
        cur \in AfterMonthFilter, applied \in BOOLEAN, date \in DateInputs}

AfterSort ==
    {CASE change = "key" ->
              Apply(cur, [type |-> "CHANGE_SORT_ORDER",
                          payload |-> [sortBy |-> "TITLE"]])
       [] change = "direction" ->
              Apply(cur, [type |-> "CHANGE_SORT_DIRECTION",
                          payload |-> [sortDirection |-> "ASC"]])
       [] OTHER -> cur :
        cur \in AfterDateFilter, change \in {"key", "direction", "none"}}

AfterRename ==
    {IF applied
     THEN Apply(cur, [type |-> "CHANGE_NOTE_TITLE",
                      payload |-> [note |-> NoteA, title |-> t.title,
                                   contentFilePath |-> t.contentFilePath,
                                   contentFileName |-> t.contentFileName]])
     ELSE cur :
        cur \in AfterSort, applied \in BOOLEAN, t \in TitleInputs}

AfterSelect ==
    {IF applied
     THEN Apply(cur, [type |-> "SELECT_NOTE", payload |-> [note |-> note]])
     ELSE cur :
        cur \in AfterRename, applied \in BOOLEAN, note \in NoteInputs}

AfterContribution ==
    {IF applied
     THEN Apply(Apply(cur, [type |-> "UPDATE_CONTRIBUTION",
                            payload |-> [contribution |-> contribution]]),
                [type |-> "CHANGE_VIEW_MODE",
                 payload |-> [viewMode |-> "VIEW_SIMPLE"]])
     ELSE cur :
        cur \in AfterSelect, applied \in BOOLEAN,
        contribution \in ContributionInputs}

AfterLoadStart ==
    {IF applied THEN Apply(cur, [type |-> "LOAD_COLLECTION"]) ELSE cur :
        cur \in AfterContribution, applied \in BOOLEAN}

InitCommand ==
    /\ \E cur \in AfterLoadStart :
          /\ state = cur.state
          /\ sorting = cur.sorting
    /\ action = [type |-> "@ngrx/store/init"]
    /\ thrown = FALSE
    /\ selectedBefore = null
    /\ InitObjects
    /\ InitGithub
    /\ InitNoteDialog
    /\ InitManager

\* No command has been applied to the snapshot yet.
FirstCommand == action.type = "@ngrx/store/init"

NextCommand ==
    \/ FirstCommand /\ LoadCollection
    \/ FirstCommand /\ LoadCollectionComplete
    \/ FirstCommand /\ SelectDateFilter
    \/ FirstCommand /\ SelectMonthFilter
    \/ FirstCommand /\ ChangeSortOrder
    \/ FirstCommand /\ ChangeSortDirection
    \/ FirstCommand /\ ChangeViewMode
    \/ FirstCommand /\ SelectNote
    \/ FirstCommand /\ DeselectNote
    \/ FirstCommand /\ AddNote
    \/ FirstCommand /\ UpdateContribution
    \/ FirstCommand /\ ChangeNoteTitle
    \/ FirstCommand /\ DeleteNote
    \/ FirstCommand /\ ChangeNoteStacks

SpecCommand == InitCommand /\ [][NextCommand]_vars

(***************************************************************************)
(* Properties.                                                             *)
(***************************************************************************)
\* Some entry of arr has this id.
HasId(arr, id) == \E i \in 1..Len(arr) : arr[i].id = id

\* The fields a patching command overwrites, with their new values.
PatchOf(a) ==
    IF a.type = "CHANGE_NOTE_TITLE"
    THEN [title           |-> a.payload.title,
          contentFilePath |-> a.payload.contentFilePath,
          contentFileName |-> a.payload.contentFileName]
    ELSE [stackIds |-> a.payload.stacks]

\* new is old with exactly the fields of patch overwritten.
Patched(old, new, patch) ==
    /\ DOMAIN new = DOMAIN old
    /\ \A f \in DOMAIN old :
          new[f] = IF f \in DOMAIN patch THEN patch[f] ELSE old[f]

\* C1: the stored derived view equals the view recomputed from the current
\* notes, filter and sort configuration by a fresh Sorting object, in every
\* reachable snapshot.
C1_DerivedViewFresh ==
    state.filteredAndSortedNotes =
        withFilteredAndSortedNotes(state, NewSorting).state.filteredAndSortedNotes

\* A rename has just been applied under the month filter, which keeps one of
\* the two notes: the renamed one.
C1_Witness ==
    /\ action.type = "CHANGE_NOTE_TITLE"
    /\ state.filterBy = "BY_MONTH"
    /\ Len(state.notes) = 2
    /\ Len(state.filteredAndSortedNotes) = 1
    /\ state.filteredAndSortedNotes[1].title = action.payload.title

\* C2: a non-null selectedNote either has an id no entry of notes has, or
\* equals, field by field, an entry of notes with its id.
C2_SelectionConsistent ==
    state.selectedNote # null =>
        \/ ~HasId(state.notes, state.selectedNote.id)
        \/ \E i \in 1..Len(state.notes) : state.notes[i] = state.selectedNote

\* C3: no two entries of notes share an id.
C3_Uniqueness ==
    \A i, j \in 1..Len(state.notes) :
        i # j => state.notes[i].id # state.notes[j].id

\* C4 as stated: DeleteNote of a note with the id of the non-null selectedNote
\* leaves selectedNote null.
C4_DeleteClearsSelection ==
    [][(/\ action'.type = "DELETE_NOTE"
        /\ state.selectedNote # null
        /\ action'.payload.note.id = state.selectedNote.id)
       => state'.selectedNote = null]_vars

\* C4 amended: DeleteNote of a note that has the id of the non-null
\* selectedNote and the id of an entry of notes leaves selectedNote null.
C4_DeleteOfPresentClearsSelection ==
    [][(/\ action'.type = "DELETE_NOTE"
        /\ state.selectedNote # null
        /\ action'.payload.note.id = state.selectedNote.id
        /\ HasId(state.notes, action'.payload.note.id))
       => state'.selectedNote = null]_vars

\* The selected note has just been deleted out of a collection of two.
C4_Witness ==
    /\ action.type = "DELETE_NOTE"
    /\ selectedBefore # null
    /\ selectedBefore.id = action.payload.note.id
    /\ state.selectedNote = null
    /\ Len(state.notes) = 1
    /\ ~HasId(state.notes, action.payload.note.id)

\* C5: a command after which no entry of notes has the id of the selected
\* note, while one had it before, leaves selectedNote null.
C5_SelectionClearedWhenTargetDisappears ==
    [][(/\ state.selectedNote # null
        /\ HasId(state.notes, state.selectedNote.id)
        /\ ~HasId(state'.notes, state.selectedNote.id))
       => state'.selectedNote = null]_vars

\* C6: in every reachable state, selectedNote is null or has the id of
\* exactly one entry of notes.
C6_SelectedNoteIsOneOfNotes ==
    state.selectedNote # null =>
        Cardinality({i \in 1..Len(state.notes) :
                        state.notes[i].id = state.selectedNote.id}) = 1

\* C7: ChangeNoteTitle and ChangeNoteStacks of an id in notes overwrite
\* exactly the patched fields of the entry found for that id, keep every
\* other entry, and overwrite the same fields of a selectedNote with that
\* id; a selectedNote with another id, or null, is kept.
C7_PatchMirrored ==
    [][(/\ action'.type \in {"CHANGE_NOTE_TITLE", "CHANGE_NOTE_STACKS"}
        /\ HasId(state.notes, action'.payload.note.id))
       => LET id == action'.payload.note.id
              i  == CHOOSE k \in 1..Len(state.notes) :
                        /\ state.notes[k].id = id
                        /\ \A j \in 1..(k - 1) : state.notes[j].id # id
          IN  /\ Len(state'.notes) = Len(state.notes)
              /\ \A j \in 1..Len(state.notes) :
                    j # i => state'.notes[j] = state.notes[j]
              /\ Patched(state.notes[i], state'.notes[i], PatchOf(action'))
              /\ state'.notes[i].id = id
              /\ state'.notes[i].createdDatetime = state.notes[i].createdDatetime
              /\ IF state.selectedNote # null /\ state.selectedNote.id = id
                 THEN Patched(state.selectedNote, state'.selectedNote,
                              PatchOf(action'))
                 ELSE state'.selectedNote = state.selectedNote]_vars

\* A rename has just been applied to the selected note, which is in notes:
\* the selection carries the new title, which it did not carry before.
C7_Witness ==
    /\ action.type = "CHANGE_NOTE_TITLE"
    /\ state.selectedNote # null
    /\ selectedBefore # null
    /\ state.selectedNote.id = action.payload.note.id
    /\ HasId(state.notes, action.payload.note.id)
    /\ state.selectedNote.title = action.payload.title
    /\ selectedBefore.title # action.payload.title

\* C8: ChangeNoteTitle, ChangeNoteStacks and DeleteNote of an id that no
\* entry of notes has return a snapshot equal to the one they were given,
\* and do not throw.
C8_NotFoundIsNoOp ==
    [][(/\ action'.type \in {"CHANGE_NOTE_TITLE", "CHANGE_NOTE_STACKS", "DELETE_NOTE"}
        /\ ~HasId(state.notes, action'.payload.note.id))
       => state' = state /\ thrown' = FALSE]_vars

\* A rename of an id that is not in notes has just been applied, while notes
\* is not empty, the month filter hides an entry and a note with that id is
\* selected.
C8_Witness ==
    /\ action.type = "CHANGE_NOTE_TITLE"
    /\ ~HasId(state.notes, action.payload.note.id)
    /\ Len(state.notes) > 0
    /\ Len(state.filteredAndSortedNotes) < Len(state.notes)
    /\ state.selectedNote # null
    /\ state.selectedNote.id = action.payload.note.id
    /\ selectedBefore = state.selectedNote
    /\ ~thrown

\* C9: after DeleteNote of an id in notes, no entry of notes has that id,
\* the other entries are kept in their order, and no entry of the derived
\* view has that id.
C9_DeleteRemovesId ==
    [][(/\ action'.type = "DELETE_NOTE"
        /\ HasId(state.notes, action'.payload.note.id))
       => LET id == action'.payload.note.id
              Other(note) == note.id # id
          IN  /\ ~HasId(state'.notes, id)
              /\ state'.notes = SelectSeq(state.notes, Other)
              /\ ~HasId(state'.filteredAndSortedNotes, id)]_vars

\* C10: a month filter always has its selectedMonth and a date filter its
\* selectedDate, and no recomputation of the derived view throws.
C10_ConfigurationConsistent ==
    /\ state.filterBy = "BY_MONTH" => state.selectedMonth # null
    /\ state.filterBy = "BY_DATE" => state.selectedDate # null
    /\ ~thrown

\* The date filter has just been chosen after the month filter: both
\* selectors are set, and the derived view was recomputed from two notes.
C10_Witness ==
    /\ action.type = "SELECT_DATE_FILTER"
    /\ state.filterBy = "BY_DATE"
    /\ state.selectedDate # null
    /\ state.selectedMonth # null
    /\ Len(state.notes) = 2
    /\ Len(state.filteredAndSortedNotes) = 1

(***************************************************************************)
(* The derived view, stated without the code that computes it.             *)
(***************************************************************************)
\* The sort key of x is below / equal to the sort key of y.
KeyLess(sortBy, x, y) ==
    IF sortBy = "TITLE" THEN StrLess(x.title, y.title)
    ELSE x.createdDatetime < y.createdDatetime

KeyEqual(sortBy, x, y) ==
    IF sortBy = "TITLE" THEN x.title = y.title
    ELSE x.createdDatetime = y.createdDatetime

\* The day number (days since 1970-01-01) of a timestamp.
DayNumber(ms) == ms \div MsPerDay

\* The timestamp lies in the calendar month m (0..11) of year y: on or after
\* the first day of that month and before the first day of the next one.
InCalendarMonth(ms, y, m) ==
    /\ CivilDays(y, m + 1, 1) <= DayNumber(ms)
    /\ DayNumber(ms) < (IF m = 11 THEN CivilDays(y + 1, 1, 1)
                        ELSE CivilDays(y, m + 2, 1))

\* The timestamp lies on the calendar day y-m-d (m in 0..11).
OnCalendarDay(ms, y, m, d) == DayNumber(ms) = CivilDays(y, m + 1, d)

\* The one-to-one maps of the positions 1..n into the positions 1..m.
Injections(n, m) ==
    {p \in [1..n -> 1..m] : \A i, j \in 1..n : i # j => p[i] # p[j]}

\* view holds entries of source, each taken from a position of its own, in
\* the order of their keys in the given direction, entries with equal keys
\* in the order of their positions in source.
IsStableOrdering(view, source, sortBy, direction) ==
    \E p \in Injections(Len(view), Len(source)) :
        /\ \A k \in 1..Len(view) : view[k] = source[p[k]]
        /\ \A k, l \in 1..Len(view) :
              k < l =>
                  IF KeyEqual(sortBy, view[k], view[l]) THEN p[k] < p[l]
                  ELSE IF direction = "ASC" THEN KeyLess(sortBy, view[k], view[l])
                  ELSE KeyLess(sortBy, view[l], view[k])

\* The sequence in reverse.
Reverse(arr) == [i \in 1..Len(arr) |-> arr[Len(arr) + 1 - i]]

\* The derived view is recomputed by this command.
Recomputes(a) ==
    a.type \in {"LOAD_COLLECTION_COMPLETE", "SELECT_DATE_FILTER",
                "SELECT_MONTH_FILTER", "CHANGE_SORT_ORDER",
                "CHANGE_SORT_DIRECTION", "ADD_NOTE", "CHANGE_NOTE_TITLE",
                "DELETE_NOTE", "CHANGE_NOTE_STACKS"}

\* The filter mode of the snapshot has no selector to filter by.
SelectorUnset(st) ==
    \/ st.filterBy = "BY_MONTH" /\ st.selectedMonth = null
    \/ st.filterBy = "BY_DATE" /\ st.selectedDate = null

\* C11: a command that recomputes the derived view of a snapshot whose
\* filter mode has no selector (and that does not itself set the selector)
\* throws: the snapshot stays as it was, the Sorting object too.  The filter
\* commands set mode and selector together and return.
C11_FailFastOnUnsetSelector ==
    [][/\ (/\ Recomputes(action')
           /\ action'.type \notin {"SELECT_DATE_FILTER", "SELECT_MONTH_FILTER"}
           /\ SelectorUnset(state))
          => thrown' /\ state' = state /\ sorting' = sorting
       /\ thrown' => Recomputes(action') /\ SelectorUnset(state)]_vars

\* AddNote has just thrown on a snapshot with one note that filters by date
\* and has no date: the snapshot did not take the note.
C11_Witness ==
    /\ thrown
    /\ action.type = "ADD_NOTE"
    /\ state.filterBy = "BY_DATE"
    /\ state.selectedDate = null
    /\ Len(state.notes) = 1
    /\ state.filteredAndSortedNotes = <<>>

\* No two entries of the sequence have equal sort keys.
KeysDistinct(sortBy, arr) ==
    \A k, l \in 1..Len(arr) : k # l => ~KeyEqual(sortBy, arr[k], arr[l])

\* C12 as stated: ChangeSortDirection to the other direction turns the
\* derived view into its exact reverse, for every notes collection, filter
\* and sort key.
C12_DescIsReverseOfAsc ==
    [][(/\ action'.type = "CHANGE_SORT_DIRECTION"
        /\ action'.payload.sortDirection # state.sortDirection)
       => state'.filteredAndSortedNotes = Reverse(state.filteredAndSortedNotes)]_vars

\* C12 amended: ChangeSortDirection to the other direction turns a derived
\* view in which no two notes have equal sort keys into its exact reverse.
C12_DescIsReverseOfAscForDistinctKeys ==
    [][(/\ action'.type = "CHANGE_SORT_DIRECTION"
        /\ action'.payload.sortDirection # state.sortDirection
        /\ KeysDistinct(state.sortBy, state.filteredAndSortedNotes))
       => state'.filteredAndSortedNotes = Reverse(state.filteredAndSortedNotes)]_vars

\* The direction has just been set to ascending (it is descending at the
\* start) with the title as key: two notes with different titles are listed,
\* the lower title first, against their order in notes.
C12_Witness ==
    /\ action.type = "CHANGE_SORT_DIRECTION"
    /\ state.sortDirection = "ASC"
    /\ state.sortBy = "TITLE"
    /\ Len(state.filteredAndSortedNotes) = 2
    /\ StrLess(state.filteredAndSortedNotes[1].title,
               state.filteredAndSortedNotes[2].title)
    /\ state.filteredAndSortedNotes = Reverse(state.notes)

\* C13: the derived view lists entries of notes by their sort key in the
\* configured direction, and entries with equal keys in their order in
\* notes, in both directions.
C13_StableOrdering ==
    IsStableOrdering(state.filteredAndSortedNotes, state.notes,
                     state.sortBy, state.sortDirection)

\* Two notes with different ids and the same title are listed by title,
\* descending, in their order in notes.
C13_Witness ==
    /\ state.sortBy = "TITLE"
    /\ state.sortDirection = "DESC"
    /\ action.type \in {"CHANGE_SORT_ORDER", "CHANGE_SORT_DIRECTION"}
    /\ Len(state.notes) = 2
    /\ state.notes[1].id # state.notes[2].id
    /\ state.notes[1].title = state.notes[2].title
    /\ state.filteredAndSortedNotes = state.notes

\* The number of entries of arr equal to note.
Occurrences(arr, note) == Cardinality({i \in 1..Len(arr) : arr[i] = note})

\* C14: under the month filter an entry of notes is listed in the derived
\* view exactly when its createdDatetime lies in the calendar month of
\* selectedMonth; the entries outside that month are not listed.
C14_MonthMembership ==
    state.filterBy = "BY_MONTH" =>
        \A i \in 1..Len(state.notes) :
            Occurrences(state.filteredAndSortedNotes, state.notes[i]) =
                IF InCalendarMonth(state.notes[i].createdDatetime,
                                   state.selectedMonth.year,
                                   state.selectedMonth.month)
                THEN Occurrences(state.notes, state.notes[i])
                ELSE 0

\* The month filter of January 1970 was chosen and a load has then delivered
\* a note of that month and a note of December 1969: only the first is
\* listed.
C14_Witness ==
    /\ action.type = "LOAD_COLLECTION_COMPLETE"
    /\ state.filterBy = "BY_MONTH"
    /\ state.selectedMonth = [year |-> 1970, month |-> 0]
    /\ state.notes = <<NoteB, NoteA>>
    /\ state.filteredAndSortedNotes = <<NoteA>>

\* C15: under the date filter an entry of notes is listed in the derived
\* view exactly when its createdDatetime lies on the calendar day of
\* selectedDate; without month or date filter every entry is listed.
C15_DateMembership ==
    /\ state.filterBy = "BY_DATE" =>
          \A i \in 1..Len(state.notes) :
              Occurrences(state.filteredAndSortedNotes, state.notes[i]) =
                  IF OnCalendarDay(state.notes[i].createdDatetime,
                                   state.selectedDate.year,
                                   state.selectedDate.month,
                                   state.selectedDate.date)
                  THEN Occurrences(state.notes, state.notes[i])
                  ELSE 0
    /\ state.filterBy \notin {"BY_MONTH", "BY_DATE"} =>
          \A i \in 1..Len(state.notes) :
              Occurrences(state.filteredAndSortedNotes, state.notes[i]) =
                  Occurrences(state.notes, state.notes[i])

\* The date filter of 1970-01-06 hides a note created on 1970-01-05, which
\* the month filter of that date had listed.
C15_Witness ==
    /\ action.type = "SELECT_DATE_FILTER"
    /\ state.filterBy = "BY_DATE"
    /\ state.selectedDate = [year |-> 1970, month |-> 0, date |-> 6]
    /\ state.selectedMonth = [year |-> 1970, month |-> 0]
    /\ state.notes = <<NoteA>>
    /\ state.filteredAndSortedNotes = <<>>

\* C16: SelectMonthFilter(date) leaves filterBy = BY_MONTH, selectedMonth
\* the year and month (0..11) of the calendar month date lies in, and
\* selectedDate null; SelectDateFilter(date) leaves filterBy = BY_DATE and
\* selectedDate the year, month and day of the calendar day date lies on,
\* whatever the selectors were before.
C16_FilterCommandsSetModeAndSelector ==
    [][/\ action'.type = "SELECT_MONTH_FILTER" =>
              /\ state'.filterBy = "BY_MONTH"
              /\ DOMAIN state'.selectedMonth = {"year", "month"}
              /\ state'.selectedMonth.month \in 0..11
              /\ InCalendarMonth(action'.payload.date,
                                 state'.selectedMonth.year,
                                 state'.selectedMonth.month)
              /\ state'.selectedDate = null
       /\ action'.type = "SELECT_DATE_FILTER" =>
              /\ state'.filterBy = "BY_DATE"
              /\ DOMAIN state'.selectedDate = {"year", "month", "date"}
              /\ state'.selectedDate.month \in 0..11
              /\ InCalendarMonth(action'.payload.date,
                                 state'.selectedDate.year,
                                 state'.selectedDate.month)
              /\ OnCalendarDay(action'.payload.date,
                               state'.selectedDate.year,
                               state'.selectedDate.month,
                               state'.selectedDate.date)]_vars

\* The month filter has just been chosen with the date 1970-01-06 01:00
\* after a date filter: the month is January 1970, the date is cleared and
\* the note of that month is listed out of two.
C16_Witness ==
    /\ action.type = "SELECT_MONTH_FILTER"
    /\ action.payload.date = 5 * MsPerDay + 3600000
    /\ state.filterBy = "BY_MONTH"
    /\ state.selectedMonth = [year |-> 1970, month |-> 0]
    /\ state.selectedDate = null
    /\ Len(state.notes) = 2
    /\ state.filteredAndSortedNotes = <<NoteA>>

\* C17: SelectDateFilter keeps selectedMonth, notes, sortBy, sortDirection,
\* selectedNote, loading, loaded, contribution and viewMode.
C17_SelectDateFilterFrame ==
    [][action'.type = "SELECT_DATE_FILTER" =>
          /\ state'.selectedMonth = state.selectedMonth
          /\ state'.notes = state.notes
          /\ state'.sortBy = state.sortBy
          /\ state'.sortDirection = state.sortDirection
          /\ state'.selectedNote = state.selectedNote
          /\ state'.loading = state.loading
          /\ state'.loaded = state.loaded
          /\ state'.contribution = state.contribution
          /\ state'.viewMode = state.viewMode
          /\ DOMAIN state' = DOMAIN state]_vars

\* The date filter has just been chosen while a month was selected, a load
\* was running over a loaded collection, a note was selected, the sort key
\* was the title and the contribution had been updated: all of these are
\* still so.
C17_Witness ==
    /\ action.type = "SELECT_DATE_FILTER"
    /\ state.filterBy = "BY_DATE"
    /\ state.selectedMonth # null
    /\ state.loading /\ state.loaded
    /\ state.selectedNote # null /\ selectedBefore = state.selectedNote
    /\ state.sortBy = "TITLE"
    /\ state.contribution \in ContributionInputs
    /\ state.viewMode = "VIEW_SIMPLE"
    /\ Len(state.notes) = 2

\* The entries of notes the filter of the snapshot lets pass, in their order
\* in notes.
PassesFilter(st, note) ==
    CASE st.filterBy = "BY_MONTH" ->
            InCalendarMonth(note.createdDatetime,
                            st.selectedMonth.year, st.selectedMonth.month)
      [] st.filterBy = "BY_DATE" ->
            OnCalendarDay(note.createdDatetime, st.selectedDate.year,
                          st.selectedDate.month, st.selectedDate.date)
      [] OTHER -> TRUE

Passing(st) ==
    LET Passes(note) == PassesFilter(st, note)
    IN  SelectSeq(st.notes, Passes)

\* view lists exactly the entries of notes that pass the filter of the
\* snapshot, in the order of its sort key and direction.
IsViewOf(view, st) ==
    /\ Len(view) = Len(Passing(st))
    /\ IsStableOrdering(view, Passing(st), st.sortBy, st.sortDirection)

\* C18: LoadStart leaves loading true and every other field of the snapshot
\* as it was.
C18_LoadStartFrame ==
    [][action'.type = "LOAD_COLLECTION" =>
          /\ state'.loading = TRUE
          /\ DOMAIN state' = DOMAIN state
          /\ \A f \in DOMAIN state \ {"loading"} : state'[f] = state[f]
          /\ ~thrown']_vars

\* LoadStart has just been applied to a loaded collection of two notes with
\* a date filter, a selected note and an updated contribution: it is loading
\* and still loaded.
C18_Witness ==
    /\ action.type = "LOAD_COLLECTION"
    /\ state.loading /\ state.loaded
    /\ Len(state.notes) = 2
    /\ Len(state.filteredAndSortedNotes) = 1
    /\ state.filterBy = "BY_DATE"
    /\ state.selectedNote # null /\ selectedBefore = state.selectedNote
    /\ state.contribution \in ContributionInputs

\* C19: LoadComplete(notes) leaves loaded true, loading false, notes the
\* sequence supplied, the filter and sort configuration as it was, and the
\* derived view the supplied notes that pass that filter in the order of
\* that sort.
C19_LoadCompleteReplacesNotes ==
    [][action'.type = "LOAD_COLLECTION_COMPLETE" =>
          /\ state'.loaded = TRUE
          /\ state'.loading = FALSE
          /\ state'.notes = action'.payload.notes
          /\ state'.filterBy = state.filterBy
          /\ state'.selectedMonth = state.selectedMonth
          /\ state'.selectedDate = state.selectedDate
          /\ state'.sortBy = state.sortBy
          /\ state'.sortDirection = state.sortDirection
          /\ IsViewOf(state'.filteredAndSortedNotes,
                      [state EXCEPT !.notes = action'.payload.notes])]_vars

\* A load has just delivered two notes under a date
\* filter and the title as sort key: one of them is listed.
C19_Witness ==
    /\ action.type = "LOAD_COLLECTION_COMPLETE"
    /\ Len(action.payload.notes) = 2
    /\ state.loaded /\ ~state.loading
    /\ state.filterBy = "BY_DATE"
    /\ state.sortBy = "TITLE"
    /\ state.notes = action.payload.notes
    /\ Len(state.filteredAndSortedNotes) = 1

\* C20: AddNote(note) leaves notes the previous notes with note appended,
\* the derived view the notes that pass the current filter in the order of
\* the current sort (the new note among them exactly when it passes), and
\* selectedNote as it was.
C20_AddNoteAppends ==
    [][action'.type = "ADD_NOTE" =>
          /\ state'.notes = Append(state.notes, action'.payload.note)
          /\ IsViewOf(state'.filteredAndSortedNotes, state')
          /\ (\E k \in 1..Len(state'.filteredAndSortedNotes) :
                  state'.filteredAndSortedNotes[k] = action'.payload.note)
               <=> PassesFilter(state, action'.payload.note)
          /\ state'.filterBy = state.filterBy
          /\ state'.selectedMonth = state.selectedMonth
          /\ state'.selectedDate = state.selectedDate
          /\ state'.sortBy = state.sortBy
          /\ state'.sortDirection = state.sortDirection
          /\ state'.selectedNote = state.selectedNote]_vars

\* Note "b" has just been added behind note "a" while a note was selected
\* and the notes were listed by title, descending: the new note is the last
\* of notes and the first of the derived view, the selection is as before.
C20_Witness ==
    /\ action.type = "ADD_NOTE"
    /\ Len(state.notes) = 2
    /\ state.notes[2] = action.payload.note
    /\ state.notes[1] # action.payload.note
    /\ state.sortBy = "TITLE"
    /\ state.sortDirection = "DESC"
    /\ state.filterBy = "NONE"
    /\ state.notes = <<NoteA, NoteB>>
    /\ state.filteredAndSortedNotes = <<NoteB, NoteA>>
    /\ state.selectedNote # null /\ selectedBefore = state.selectedNote

\* The two sequences hold the same entries, each as often as the other.
IsPermutation(arr1, arr2) ==
    /\ Len(arr1) = Len(arr2)
    /\ \A x \in Range(arr1) \cup Range(arr2) :
          Occurrences(arr1, x) = Occurrences(arr2, x)

\* C21: ChangeSortBy and ChangeSortDirection keep filterBy, selectedMonth
\* and selectedDate, and the derived view after the command is a
\* permutation of the derived view before it.
C21_SortCommandsKeepFilterAndMembers ==
    [][action'.type \in {"CHANGE_SORT_ORDER", "CHANGE_SORT_DIRECTION"} =>
          /\ state'.filterBy = state.filterBy
          /\ state'.selectedMonth = state.selectedMonth
          /\ state'.selectedDate = state.selectedDate
          /\ IsPermutation(state'.filteredAndSortedNotes,
                           state.filteredAndSortedNotes)]_vars

\* The direction has just been changed under the month filter, with the
\* title as key: the two notes of the month are listed, against their order
\* in notes.
C21_Witness ==
    /\ action.type = "CHANGE_SORT_DIRECTION"
    /\ state.filterBy = "BY_MONTH"
    /\ state.sortBy = "TITLE"
    /\ Len(state.filteredAndSortedNotes) = 2
    /\ state.filteredAndSortedNotes = Reverse(state.notes)
    /\ state.filteredAndSortedNotes # state.notes

\* C22: SelectNote(note) leaves selectedNote equal to the note given,
\* whether or not notes has an entry with its id, and every other field of
\* the snapshot as it was.
C22_SelectNoteFrame ==
    [][action'.type = "SELECT_NOTE" =>
          /\ state'.selectedNote = action'.payload.note
          /\ DOMAIN state' = DOMAIN state
          /\ \A f \in DOMAIN state \ {"selectedNote"} : state'[f] = state[f]
          /\ ~thrown']_vars

\* A note whose id no entry of notes has has just been selected in place of
\* another selection, while notes holds a note the date filter hides and a
\* load is in progress.
C22_Witness ==
    /\ action.type = "SELECT_NOTE"
    /\ state.selectedNote = action.payload.note
    /\ ~HasId(state.notes, action.payload.note.id)
    /\ selectedBefore # null
    /\ selectedBefore # state.selectedNote
    /\ Len(state.notes) = 1
    /\ state.filterBy = "BY_DATE"
    /\ state.filteredAndSortedNotes = <<>>
    /\ state.loading

\* C23: DeselectNote leaves selectedNote null and every other field as it
\* was, and a DeselectNote that follows a DeselectNote returns the snapshot
\* it was given.
C23_DeselectIdempotent ==
    [][action'.type = "DESELECT_NOTE" =>
          /\ state'.selectedNote = null
          /\ DOMAIN state' = DOMAIN state
          /\ \A f \in DOMAIN state \ {"selectedNote"} : state'[f] = state[f]
          /\ action.type = "DESELECT_NOTE" => state' = state
          /\ noteCollectionReducer(state', sorting', action').state = state'
          /\ ~thrown']_vars

\* DeselectNote has just been applied to a snapshot with a selected note,
\* two notes and the month filter listing one of them.
C23_Witness ==
    /\ action.type = "DESELECT_NOTE"
    /\ selectedBefore # null
    /\ state.selectedNote = null
    /\ Len(state.notes) = 2
    /\ state.filterBy = "BY_MONTH"
    /\ Len(state.filteredAndSortedNotes) = 1

\* The values a Sorting object can hold: any getter, set or not, and any
\* direction.
SortingValues ==
    [indexPropGetter : {"undefined", "createdDatetime", "title"},
     direction : {"ASC", "DESC"}]

\* C24: the result of a command depends on the snapshot and the command
\* only: whatever getter and direction earlier commands left in the
\* module-level Sorting object, the command returns the same snapshot (or
\* throws alike).
C24_ResultIndependentOfSortingObject ==
    [][\A srt \in SortingValues :
          LET r == noteCollectionReducer(state, srt, action')
          IN  /\ r.thrown = thrown'
              /\ ~r.thrown => r.state = state']_vars

\* The sort key or direction has just been set and left the notes sorted by
\* creation time, ascending, which lists the two notes against their order
\* in notes; the Sorting object holds that getter and direction now, not
\* those it was constructed with.
C24_Witness ==
    /\ action.type \in {"CHANGE_SORT_ORDER", "CHANGE_SORT_DIRECTION"}
    /\ state.sortBy = "CREATED"
    /\ state.sortDirection = "ASC"
    /\ sorting = [indexPropGetter |-> "createdDatetime", direction |-> "ASC"]
    /\ state.notes = <<NoteA, NoteB>>
    /\ state.filteredAndSortedNotes = <<NoteB, NoteA>>

\* The command is addressed to the id of the selected note: it selects or
\* deselects, or deletes or patches the note with that id.
AddressesSelection(st, a) ==
    \/ a.type \in {"SELECT_NOTE", "DESELECT_NOTE"}
    \/ /\ a.type \in {"DELETE_NOTE", "CHANGE_NOTE_TITLE", "CHANGE_NOTE_STACKS"}
       /\ st.selectedNote # null
       /\ a.payload.note.id = st.selectedNote.id

\* C25: selectedNote is a value copy.  A command that is not addressed to
\* the id of the selected note (AddNote, LoadComplete, DeleteNote or a
\* patch of another id) leaves selectedNote as it was; and
\* a selectedNote taken from an earlier snapshot is not changed by any later
\* command: the object a reader took then and still holds reads as it did
\* when it was taken.  The snapshot of values is what the references of the
\* snapshot show.
C25_SelectedNoteIsValueCopy ==
    /\ [][~AddressesSelection(state, action') =>
              state'.selectedNote = state.selectedNote]_vars
    /\ [](/\ heldRef # 0 => heap[heldRef] = heldValue
          /\ state.notes = NotesOf(Objects(heap, noteRefs, selectedRef))
          /\ state.selectedNote =
                 SelectedNoteOf(Objects(heap, noteRefs, selectedRef)))

\* A reader took the selectedNote; the note was then renamed, and the other
\* one of two notes has just been renamed: the selection is as before that
\* last command, and the object the reader holds still has the old title,
\* while the selectedNote of the snapshot is another object with the new
\* one.
C25_Witness ==
    /\ action.type = "CHANGE_NOTE_TITLE"
    /\ state.selectedNote # null
    /\ selectedBefore = state.selectedNote
    /\ action.payload.note.id # state.selectedNote.id
    /\ \E i \in 1..Len(state.notes) :
          /\ state.notes[i].id = action.payload.note.id
          /\ state.notes[i].title = action.payload.title
    /\ selectedRef # 0
    /\ heap[selectedRef] = state.selectedNote
    /\ heldRef # 0
    /\ heldRef # selectedRef
    /\ heap[heldRef] = heldValue
    /\ heldValue.id = state.selectedNote.id
    /\ heldValue.title # state.selectedNote.title

\* The ids of the entries, in their order.
Ids(arr) == [i \in 1..Len(arr) |-> arr[i].id]

\* C26: the filter, sort, view-mode, selection, load-start and contribution
\* commands leave notes as it was; ChangeNoteTitle and ChangeNoteStacks
\* leave the sequence of ids of notes as it was; AddNote and DeleteNote keep
\* the entries they do not add or delete in their order.  Sorting shows in
\* the derived view only.
C26_NotesKeepLoadOrder ==
    [][/\ action'.type \in {"SELECT_DATE_FILTER", "SELECT_MONTH_FILTER",
                            "CHANGE_SORT_ORDER", "CHANGE_SORT_DIRECTION",
                            "CHANGE_VIEW_MODE", "SELECT_NOTE", "DESELECT_NOTE",
                            "LOAD_COLLECTION", "UPDATE_CONTRIBUTION"}
              => state'.notes = state.notes
       /\ action'.type \in {"CHANGE_NOTE_TITLE", "CHANGE_NOTE_STACKS"}
              => Ids(state'.notes) = Ids(state.notes)
       /\ action'.type = "ADD_NOTE"
              => SubSeq(state'.notes, 1, Len(state.notes)) = state.notes
       /\ action'.type = "DELETE_NOTE"
              => \/ state'.notes = state.notes
                 \/ \E k \in 1..Len(state.notes) :
                       state'.notes = Splice1(state.notes, k - 1)]_vars

\* The sort direction has just been changed with no filter set: the derived
\* view lists the two notes by creation time, ascending, and notes holds
\* them in the order they were loaded in, which is the reverse.
C26_Witness ==
    /\ action.type = "CHANGE_SORT_DIRECTION"
    /\ state.filterBy = "NONE"
    /\ state.sortBy = "CREATED"
    /\ state.sortDirection = "ASC"
    /\ state.notes = <<NoteA, NoteB>>
    /\ state.filteredAndSortedNotes = <<NoteB, NoteA>>

\* The fields a command patches: those of the rename, those of the stacks,
\* none for any other command.
PatchedFields(a) ==
    CASE a.type = "CHANGE_NOTE_TITLE" -> {"title", "contentFilePath", "contentFileName"}
      [] a.type = "CHANGE_NOTE_STACKS" -> {"stackIds"}
      [] OTHER -> {}

\* C27: no update is lost.  A command other than LoadComplete and DeleteNote
\* keeps every entry of notes at its position, and keeps every field of it
\* except the fields it patches on the entries with the id it is addressed
\* to; DeleteNote keeps every entry with another id, in order.
C27_NoLostUpdate ==
    [][/\ action'.type \notin {"LOAD_COLLECTION_COMPLETE", "DELETE_NOTE"} =>
              /\ Len(state'.notes) >= Len(state.notes)
              /\ \A i \in 1..Len(state.notes) :
                    /\ DOMAIN state'.notes[i] = DOMAIN state.notes[i]
                    /\ \A f \in DOMAIN state.notes[i] :
                          \/ state'.notes[i][f] = state.notes[i][f]
                          \/ /\ f \in PatchedFields(action')
                             /\ action'.payload.note.id = state.notes[i].id
       /\ action'.type = "DELETE_NOTE" =>
              LET Other(note) == note.id # action'.payload.note.id
              IN  SelectSeq(state'.notes, Other) = SelectSeq(state.notes, Other)]_vars

\* The stacks of a note that was renamed before have just been set: the
\* entry carries the new stacks and, still, the new title, and the other
\* note is behind it as it was loaded or added.
C27_Witness ==
    /\ action.type = "CHANGE_NOTE_STACKS"
    /\ Len(state.notes) = 2
    /\ state.notes[1].id = action.payload.note.id
    /\ state.notes[1].stackIds = action.payload.stacks
    /\ state.notes[1].title \in {t.title : t \in TitleInputs}
    /\ state.notes[2].id # state.notes[1].id
    /\ state.notes[2] \in NoteInputs

\* The snapshot and Sorting object of the current state.
Current == [state |-> state, sorting |-> sorting]

\* C28: the derived view is built from notes, not from the derived view
\* before: SelectDateFilter(d) followed by SelectMonthFilter(d) leaves the
\* derived view that SelectMonthFilter(d) alone leaves, and ChangeSortBy(k)
\* followed by ChangeSortBy of the key before leaves the derived view as it
\* was.
C28_ViewBuiltFromNotes ==
    /\ \A d \in DateInputs :
          LET byDate  == [type |-> "SELECT_DATE_FILTER", payload |-> [date |-> d]]
              byMonth == [type |-> "SELECT_MONTH_FILTER", payload |-> [date |-> d]]
          IN  Apply(Apply(Current, byDate), byMonth).state.filteredAndSortedNotes
                  = Apply(Current, byMonth).state.filteredAndSortedNotes
    /\ \A k \in SortByInputs :
          LET there == [type |-> "CHANGE_SORT_ORDER", payload |-> [sortBy |-> k]]
              back  == [type |-> "CHANGE_SORT_ORDER",
                        payload |-> [sortBy |-> state.sortBy]]
          IN  Apply(Apply(Current, there), back).state.filteredAndSortedNotes
                  = state.filteredAndSortedNotes

\* The date filter of 1970-01-06 has just hidden the note of 1970-01-05, the
\* only one listed before; the month filter of that date lists it again.
C28_Witness ==
    /\ action.type = "SELECT_DATE_FILTER"
    /\ action.payload.date = 5 * MsPerDay + 3600000
    /\ state.notes = <<NoteB, NoteA>>
    /\ state.filteredAndSortedNotes = <<>>
    /\ Apply(Current, [type |-> "SELECT_MONTH_FILTER",
                       payload |-> [date |-> action.payload.date]]
            ).state.filteredAndSortedNotes = <<NoteA>>

\* The months a stale selectedMonth may name, and none.
MonthAlternatives ==
    {null, [year |-> 1970, month |-> 0], [year |-> 1969, month |-> 11]}

\* C29: under the date filter selectedMonth has no influence: a command
\* applied to a snapshot with filterBy = BY_DATE leaves the derived view it
\* leaves when applied to the same snapshot with any other selectedMonth,
\* or with none.
C29_StaleMonthHasNoInfluence ==
    [][state.filterBy = "BY_DATE" =>
          \A m \in MonthAlternatives :
              LET r == noteCollectionReducer([state EXCEPT !.selectedMonth = m],
                                             sorting, action')
              IN  /\ r.thrown = thrown'
                  /\ r.state.filteredAndSortedNotes = state'.filteredAndSortedNotes]_vars

\* A note has just been added under a date filter that was chosen after a
\* month filter: the month is still stored, the note of the day is listed,
\* the other one is not.
C29_Witness ==
    /\ action.type = "ADD_NOTE"
    /\ state.filterBy = "BY_DATE"
    /\ state.selectedMonth # null
    /\ state.notes = <<NoteB, NoteA>>
    /\ state.filteredAndSortedNotes = <<NoteA>>

\* C30: loading goes from true to false through LoadComplete only, loaded
\* never goes from true to false, and LoadComplete is applied whether a load
\* was in progress or not: it leaves loaded true, loading false and notes
\* the notes delivered.
C30_LoadLifecycle ==
    [][/\ (state.loading /\ action'.type # "LOAD_COLLECTION_COMPLETE")
              => state'.loading
       /\ state.loaded => state'.loaded
       /\ action'.type = "LOAD_COLLECTION" => state'.loading
       /\ action'.type = "LOAD_COLLECTION_COMPLETE"
              => /\ ~thrown'
                 /\ state'.loaded
                 /\ ~state'.loading
                 /\ state'.notes = action'.payload.notes]_vars

\* A note has just been deleted while a load was in progress over a loaded
\* collection: the load is still in progress, the collection still loaded.
C30_Witness ==
    /\ action.type = "DELETE_NOTE"
    /\ state.loading
    /\ state.loaded
    /\ Len(state.notes) = 1
    /\ ~HasId(state.notes, action.payload.note.id)

\* C31: no command removes a filter: a step taken with filterBy BY_DATE or
\* BY_MONTH leaves filterBy BY_DATE or BY_MONTH, so once a filter has been
\* selected no sequence of commands returns to the unfiltered mode.
C31_FilterNeverRemoved ==
    [][state.filterBy \in {"BY_DATE", "BY_MONTH"}
           => state'.filterBy \in {"BY_DATE", "BY_MONTH"}]_vars

\* The collection has just been reloaded under a date filter: the filter is
\* still there, and hides one of the two notes delivered.
C31_Witness ==
    /\ action.type = "LOAD_COLLECTION_COMPLETE"
    /\ state.filterBy = "BY_DATE"
    /\ Len(state.notes) = 2
    /\ Len(state.filteredAndSortedNotes) < 2

\* The database calls of one operation among the pending ones.
FilterCalls(calls, op) == SelectSeq(calls, LAMBDA c : c.op = op)

\* The fields of the GitHub accounts dialog and of what it is given, without
\* the record of the handler that ran last.
GithubFields ==
    <<loginProcessing, loginErrorCaught, isEmpty, accountsCount, accounts,
      formType, accountDB, authorizations, dbCalls, confirmDialogs,
      lifecycle>>

\* C32: a login() made while loginProcessing is true starts no
\* authorization request and changes nothing; a login() made while it is
\* false starts one request and leaves loginProcessing true and
\* loginErrorCaught false; at most one authorization request is in flight.
C32_SingleLoginInFlight ==
    [][/\ githubEvent'.name = "login" /\ loginProcessing
              => /\ UNCHANGED GithubFields
                 /\ githubEvent'.detail = "returned"
       /\ githubEvent'.name = "login" /\ ~loginProcessing
              => /\ loginProcessing'
                 /\ ~loginErrorCaught'
                 /\ Len(authorizations') = Len(authorizations) + 1
                 /\ githubEvent'.detail = "started"
       /\ Len(authorizations') <= 1]_vars

\* login() has just returned at once: a token authorization is in flight,
\* after an earlier login had ended in the confirm dialog.
C32_Witness ==
    /\ githubEvent = [name |-> "login", detail |-> "returned"]
    /\ loginProcessing
    /\ Len(authorizations) = 1
    /\ authorizations[1].type = "OAUTH2_TOKEN"
    /\ confirmDialogs = 1

\* C33: a login() that has set loginProcessing, with either authentication
\* type in the form, is followed by a state where loginProcessing is false
\* again, given that the provider answers the request.
C33_LoginAlwaysFinishes ==
    \A t \in AuthTypeInputs :
        (githubEvent = [name |-> "login", detail |-> "started"]
             /\ formType = t /\ loginProcessing)
        ~> ~loginProcessing

\* A login with the token type in the form has ended well: its request
\* has emitted an account, for which addNewAccount was called, and has
\* completed; no request is in flight and login is open again.
C33_Witness ==
    /\ githubEvent = [name |-> "finalize", detail |-> "complete"]
    /\ formType = "OAUTH2_TOKEN"
    /\ ~loginProcessing
    /\ authorizations = <<>>
    /\ FilterCalls(dbCalls, "addNewAccount") # <<>>

C35_DisplayedAccountsConverge ==
    /\ isEmpty <=> (accountsCount = 0 /\ accounts = <<>>)
    /\ (lifecycle = "initialized" /\ dbCalls = <<>>) => accounts = accountDB

\* C36: a createNewNote() call closes the dialog only when it has
\* succeeded, after createNewNote when no label was given and after
\* keepDirectory when one was; a call that fails leaves the dialog as it
\* is, sets contentFileExists on the title for
\* NoteContentFileAlreadyExistsError, outsideWorkspace on the label for
\* NoteOutsideWorkspaceError, and opens one alert dialog for any other
\* rejection, each without the two other effects; when a call has ended
\* either way, createNewNoteProcessing is false.
C36_CreateNewNoteOutcome ==
    [][/\ createEvent'.name \in {"createNewNote", "keepDirectory",
                                 "handleCreateNewNoteFail"}
              => dialogClosed' = dialogClosed
       /\ createEvent'.name = "handleCreateNewNoteSuccess"
              => /\ dialogClosed'
                 /\ ~createNewNoteProcessing'
                 /\ IF createEvent'.label = ""
                    THEN createEvent'.stage = "createNewNote"
                    ELSE createEvent'.stage = "keepDirectory"
                 /\ UNCHANGED <<titleErrors, labelErrors, alertDialogs>>
       /\ createEvent'.name = "handleCreateNewNoteFail"
              => /\ ~createNewNoteProcessing'
                 /\ CASE createEvent'.error
                             = "NoteContentFileAlreadyExistsError" ->
                             /\ titleErrors' = {"contentFileExists"}
                             /\ UNCHANGED <<labelErrors, alertDialogs>>
                      [] createEvent'.error = "NoteOutsideWorkspaceError" ->
                             /\ labelErrors' = {"outsideWorkspace"}
                             /\ UNCHANGED <<titleErrors, alertDialogs>>
                      [] OTHER ->
                             /\ alertDialogs' = alertDialogs + 1
                             /\ UNCHANGED <<titleErrors, labelErrors>>]_vars

\* C37: createNewNoteProcessing is true in every state in which a
\* createNewNote() call is in flight.
C37_ProcessingWhileInFlight ==
    createCalls # <<>> => createNewNoteProcessing

\* The item references whose id is selected.
SelectedRefs(refs, selected) ==
    {refs[k] : k \in {j \in 1..Len(refs) : refs[j].id \in selected}}

\* C38: when an initWithFileChanges call has resolved, an id is selected
\* exactly when it was selected before the call and one of the items
\* created has it, the items created with such an id are checked, and the
\* item list is the items created, in creation order.
C38_InitPreservesSelections ==
    [][managerEvent'.name = "itemsCreated" =>
          /\ selectedItems' =
                 managerEvent'.previous \cap RefIds(managerEvent'.created)
          /\ \A k \in 1..Len(managerEvent'.created) :
                 managerEvent'.created[k].id \in managerEvent'.previous
                     => managerEvent'.created[k].checked
          /\ itemRefs' = managerEvent'.created]_vars

\* C39: every selected id is the id of an item of the list,
\* getSelectedItems returns the items of the list whose id is selected,
\* and updateItemSelection with an index outside the list changes nothing
\* and emits no selection change.
C39_SelectionInvariant ==
    [][/\ selectedItems' \subseteq RefIds(itemRefs')
       /\ getSelectedItems(itemRefs', selectedItems')
              = SelectedRefs(itemRefs', selectedItems')
       /\ (/\ managerEvent'.name = "updateItemSelection"
           /\ (managerEvent'.index < 0
                   \/ managerEvent'.index >= Len(itemRefs)))
              => /\ UNCHANGED <<itemRefs, selectedItems, keyManager,
                                streamCompleted, initCalls>>
                 /\ ~managerEvent'.emitted]_vars

\* C40: when every initWithFileChanges call has resolved, the item list
\* holds the items created for the latest call only, and no id twice.
C40_OverlappingInit ==
    initCalls = <<>> =>
        /\ \A k \in 1..Len(itemRefs) : itemRefs[k].call = initCount
        /\ \A j, k \in 1..Len(itemRefs) :
               itemRefs[j].id = itemRefs[k].id => j = k
====
